---- MODULE Spec2Model ----
(***************************************************************************)
(* Model of the campus-life web application's data-fetching logic:         *)
(*   - SearchPage.performSearch   (src/unnamed/part_000, lines 383-446)    *)
(*   - App.fetchFeaturedEvents    (src/unnamed/part_000, lines 49-161)     *)
(* Every await of a backend call is a suspension point: the part of a      *)
(* handler between two awaits is one atomic action (single-threaded event  *)
(* loop), and the backend's answer is chosen by the environment.           *)
(*                                                                         *)
(* Conventions: a JavaScript null of string type is the string NULL; an    *)
(* optional value of another type is None (<<>>) or Some(x) (<<x>>).       *)
(* Dates are day numbers (ISO dates compare as their day numbers do).      *)
(* Texts are named by strings and spelled out by Chars.                    *)
(***************************************************************************)
EXTENDS Integers, Sequences, FiniteSets, TLC

----------------------------------------------------------------------------
(* Bounds of the model *)

\* number of performSearch invocations (mount + query changes) explored
MaxSearches == 3
\* number of rows in each table of the search backend
NumRows == 12
\* number of runs of the App effect (mount + user changes) explored
MaxFeedRuns == 2

\* handler invocations of the clubs page explored
MaxClubRuns == 3

\* submits of the edit-announcement form explored
MaxSubmits == 2

\* submits of the sign-in form explored
MaxAuthSubmits == 2

\* invocations of fetchClubData and of the handlers of the club detail page
\* explored
MaxDetailRuns == 2

\* invocations explored by the specifications that put several components
\* together: searches, App effect runs, clubs page handlers, form submits
MaxSiteSearches == 2
MaxSiteFeedRuns == 2
MaxSiteClubRuns == 2
MaxSiteSubmits == 1

----------------------------------------------------------------------------
(* Values *)

NULL == "null"
None == <<>>
Some(x) == <<x>>

\* .limit(10) of the three search queries
SearchLimit == 10
\* .limit(3) of the featured-events queries
FeaturedLimit == 3

\* values of searchParams.get('q'): absent, empty, two search words
QueryParams == {NULL, "", "hack", "chess"}

\* JavaScript truthiness of a string | null
Truthy(s) == s # NULL /\ s # ""

Chars(s) ==
  CASE s = "hack"  -> <<"h", "a", "c", "k">>
    [] s = "chess" -> <<"c", "h", "e", "s", "s">>
    [] s = "Hack"  -> <<"H", "a", "c", "k">>
    [] s = "Chess" -> <<"C", "h", "e", "s", "s">>
    [] OTHER       -> <<>>

Lower(c) ==
  CASE c = "H" -> "h"
    [] c = "C" -> "c"
    [] OTHER   -> c

\* `%${query}%`
SearchTerm(q) == <<"%">> \o Chars(q) \o <<"%">>

\* the backend's case-insensitive pattern match: % any run, _ any character
RECURSIVE ILike(_, _)
ILike(t, p) ==
  IF p = <<>> THEN t = <<>>
  ELSE IF Head(p) = "%"
       THEN ILike(t, Tail(p)) \/ (t # <<>> /\ ILike(Tail(t), p))
       ELSE /\ t # <<>>
            /\ (Head(p) = "_" \/ Lower(Head(t)) = Lower(Head(p)))
            /\ ILike(Tail(t), Tail(p))

\* a query that forgets .limit(n)
LimitIgnored(s, n) == s

\* .limit(n)
Limit(s, n) == IF Len(s) <= n THEN s ELSE SubSeq(s, 1, n)

\* data || []
OrEmpty(data) == IF data = None THEN <<>> ELSE data[1]

RECURSIVE InsertBy(_, _, _, _)
\* insert row r into the sorted s, after the rows whose column value ties
InsertBy(r, s, column, ascending) ==
  IF s = <<>> THEN <<r>>
  ELSE IF (IF ascending THEN r[column] < Head(s)[column]
                        ELSE r[column] > Head(s)[column])
       THEN <<r>> \o s
       ELSE <<Head(s)>> \o InsertBy(r, Tail(s), column, ascending)

RECURSIVE OrderBy(_, _, _)
\* .order(column, { ascending }): a stable sort on one column
OrderBy(s, column, ascending) ==
  IF s = <<>> THEN <<>>
  ELSE InsertBy(s[Len(s)], OrderBy(SubSeq(s, 1, Len(s) - 1), column, ascending),
                column, ascending)

----------------------------------------------------------------------------
(* The backend tables the search page reads *)

SearchEventsTable ==
  [i \in 1..NumRows |->
     [id |-> i, title |-> IF i = 1 THEN "Chess" ELSE "Hack",
      description |-> "", date |-> i, category |-> "music"]]

SearchClubsTable ==
  [i \in 1..NumRows |->
     [id |-> i, name |-> IF i = 1 THEN "Chess" ELSE "Hack", description |-> ""]]

SearchAnnouncementsTable ==
  [i \in 1..NumRows |->
     [id |-> i, title |-> "", content |-> IF i = 1 THEN "Chess" ELSE "Hack",
      created_at |-> i]]

\* failures a backend call can answer with: an Error instance or a plain object
BackendErrors ==
  {[isError |-> TRUE, message |-> "network"],
   [isError |-> FALSE, message |-> "postgrest"]}

\* the answers the backend can give to a query whose rows are `rows`
Responses(rows) ==
  {[data |-> Some(rows), error |-> None]}
    \cup {[data |-> None, error |-> Some(e)] : e \in BackendErrors}

----------------------------------------------------------------------------
VARIABLES
  \* SearchPage
  mounted,        \* the mount effect has run
  query,          \* searchParams.get('q')
  events,         \* useState<SearchEvent[]>([])
  clubs,          \* useState<SearchClub[]>([])
  announcements,  \* useState<SearchAnnouncement[]>([])
  loading,        \* useState(true)
  error,          \* useState<string | null>(null)
  searches,       \* the invocations of performSearch, in the order started
  eventsFrom,     \* invocation that last wrote events (0: initial state)
  clubsFrom,      \* same for clubs
  announcementsFrom,  \* same for announcements
  \* App (home page)
  appMounted,             \* the mount effect of App has run
  user,                   \* useAuthStore().user?.id
  appAnnouncements,       \* useState<Announcement[]>([])
  loadingAnnouncements,   \* useState(true)
  featuredEvents,         \* useState<FeaturedEvent[]>([])
  loadingFeaturedEvents,  \* useState(true)
  annFetches,             \* the invocations of fetchAnnouncements
  feeds,                  \* the invocations of fetchFeaturedEvents
  featuredFrom,           \* invocation that last wrote featuredEvents
  eventsTable,            \* the backend's events table read by the feed
  today,                  \* new Date().toISOString().split('T')[0]
  \* Clubs page
  clubsMounted,         \* the mount effect of Clubs has run
  clubsUser,            \* useAuthStore().user?.id as the page sees it
  clubList,             \* const [clubs, setClubs] = useState<Club[]>([])
  memberships,          \* useState<Set<string>>(new Set())
  clubsLoading,         \* const [loading, setLoading] = useState(true)
  clubsError,           \* const [error, setError] = useState(null)
  actionLoadingClubId,  \* useState<string | null>(null)
  fetchDataSawNoClubs,  \* `clubs.length === 0` in the memoized fetchData
  clubRuns,             \* invocations of fetchData and of the handlers
  clubsTable,           \* the backend's clubs table
  membershipsTable,     \* the backend's club_memberships table
  \* EditAnnouncementModal
  editOpen,            \* the isOpen prop
  editAnnouncement,    \* the announcement prop
  editUser,            \* useAuthStore().user
  title,               \* useState('')
  content,             \* useState('')
  editLoading,         \* const [loading, setLoading] = useState(false)
  editError,           \* const [error, setError] = useState(null)
  editSubmits,         \* the invocations of handleSubmit
  announcementsTable,  \* the backend's announcements table
  \* AuthModal
  authOpen,          \* the isOpen prop
  initialMode,       \* the initialMode prop
  mode,              \* useState(initialMode)
  email,             \* useState('')
  password,          \* useState('')
  fullName,          \* useState('')
  authError,         \* const [error, setError] = useState(null)
  message,           \* useState<string | null>(null)
  authSubmits,       \* the invocations of handleSubmit
  hasResetPassword,  \* useAuthStore() has a resetPassword function
  \* ClubDetailPage
  detailMounted,           \* the mount effect of ClubDetailPage has run
  detailClubId,            \* useParams().clubId
  detailUser,              \* useAuthStore().user?.id as the page sees it
  club,                    \* useState<Club | null>(null): None for null, Some(row)
  clubEvents,              \* const [events, setEvents] = useState([])
  isMember,                \* useState(false)
  detailLoading,           \* const [loading, setLoading] = useState(true)
  detailError,             \* const [error, setError] = useState(null)
  actionLoading,           \* useState(false)
  isEditModalOpen,         \* useState(false)
  location,                \* the route, changed by navigate('/clubs')
  detailRuns,              \* invocations of fetchClubData and the handlers
  detailClubsTable,        \* the backend's clubs table
  detailMembershipsTable,  \* the backend's club_memberships table
  \* the page under exercise
  page

searchVars == <<mounted, query, events, clubs, announcements, loading, error,
                searches, eventsFrom, clubsFrom, announcementsFrom>>

appVars == <<appMounted, user, appAnnouncements, loadingAnnouncements,
             featuredEvents, loadingFeaturedEvents, annFetches, feeds,
             featuredFrom, eventsTable, today>>

clubsPageVars == <<clubsMounted, clubsUser, clubList, memberships,
                   clubsLoading, clubsError, actionLoadingClubId,
                   fetchDataSawNoClubs, clubRuns, clubsTable,
                   membershipsTable>>

editVars == <<editOpen, editAnnouncement, editUser, title, content,
              editLoading, editError, editSubmits, announcementsTable>>

authVars == <<authOpen, initialMode, mode, email, password, fullName,
              authError, message, authSubmits, hasResetPassword>>

detailVars == <<detailMounted, detailClubId, detailUser, club, clubEvents,
                isMember, detailLoading, detailError, actionLoading,
                isEditModalOpen, location, detailRuns, detailClubsTable,
                detailMembershipsTable>>

\* what the actions of one component leave alone
nonSearchVars == <<appVars, clubsPageVars, editVars, authVars, detailVars,
                   page>>

nonAppVars == <<searchVars, clubsPageVars, editVars, authVars, detailVars,
                page>>

nonClubsVars == <<searchVars, appVars, editVars, authVars, detailVars, page>>

nonEditVars == <<searchVars, appVars, clubsPageVars, authVars, detailVars,
                 page>>

nonAuthVars == <<searchVars, appVars, clubsPageVars, editVars, detailVars,
                 page>>

nonDetailVars == <<searchVars, appVars, clubsPageVars, editVars, authVars,
                   page>>

vars == <<searchVars, appVars, clubsPageVars, editVars, authVars, detailVars,
          page>>

----------------------------------------------------------------------------
(* SearchPage *)

EventMatches(row, term) ==
  ILike(Chars(row.title), term) \/ ILike(Chars(row.description), term)

ClubMatches(row, term) ==
  ILike(Chars(row.name), term) \/ ILike(Chars(row.description), term)

AnnouncementMatches(row, term) ==
  ILike(Chars(row.title), term) \/ ILike(Chars(row.content), term)

SearchEventProjection(row) ==
  [id |-> row.id, title |-> row.title, date |-> row.date,
   description |-> row.description]

\* from('events').select(...).or(title/description ilike).limit(10)
SearchEventsQuery(q) ==
  LET Matches(row) == EventMatches(row, SearchTerm(q))
      rows == Limit(SelectSeq(SearchEventsTable, Matches), SearchLimit)
  IN  [i \in 1..Len(rows) |-> SearchEventProjection(rows[i])]

\* from('clubs').select(...).or(name/description ilike).limit(10)
SearchClubsQuery(q) ==
  LET Matches(row) == ClubMatches(row, SearchTerm(q))
  IN  Limit(SelectSeq(SearchClubsTable, Matches), SearchLimit)

\* from('announcements').select(...).or(title/content ilike)
\*   .order('created_at', desc).limit(10)
SearchAnnouncementsQuery(q) ==
  LET Matches(row) == AnnouncementMatches(row, SearchTerm(q))
  IN  Limit(OrderBy(SelectSeq(SearchAnnouncementsTable, Matches),
                    "created_at", FALSE),
            SearchLimit)

\* the rows the backend holds for each query string, per category
SearchRows ==
  [q \in QueryParams |->
     [events |-> SearchEventsQuery(q),
      clubs |-> SearchClubsQuery(q),
      announcements |-> SearchAnnouncementsQuery(q)]]

\* err instanceof Error ? err.message : 'Failed to perform search'
SearchErrorMessage(err) ==
  IF err.isError THEN err.message ELSE "Failed to perform search"

\* a new invocation of performSearch(q): everything up to its first await
performSearch(q) ==
  /\ Len(searches) < MaxSearches
  /\ IF ~Truthy(q)
     THEN /\ loading' = FALSE
          /\ searches' = Append(searches,
               [q |-> q, pc |-> "done", calls |-> <<>>, answers |-> <<>>,
                failed |-> FALSE, message |-> NULL])
          /\ UNCHANGED <<events, clubs, announcements, error,
                         eventsFrom, clubsFrom, announcementsFrom>>
     ELSE /\ loading' = TRUE
          /\ error' = NULL
          /\ events' = <<>>
          /\ clubs' = <<>>
          /\ announcements' = <<>>
          /\ eventsFrom' = Len(searches) + 1
          /\ clubsFrom' = Len(searches) + 1
          /\ announcementsFrom' = Len(searches) + 1
          /\ searches' = Append(searches,
               [q |-> q, pc |-> "events", calls |-> <<"events">>,
                answers |-> <<>>, failed |-> FALSE, message |-> NULL])

\* the effect of useEffect(..., [query]) at mount
Mount ==
  /\ page = "search"
  /\ ~mounted
  /\ mounted' = TRUE
  /\ UNCHANGED query
  /\ performSearch(query)
  /\ UNCHANGED nonSearchVars

\* the URL's q parameter changes: the effect runs again
ChangeQuery(q) ==
  /\ mounted
  /\ q # query
  /\ query' = q
  /\ UNCHANGED mounted
  /\ performSearch(q)
  /\ UNCHANGED nonSearchVars

\* a handler without the finally block
SearchCatchKeepsLoading(s, err) ==
  /\ error' = SearchErrorMessage(err)
  /\ searches' = [searches EXCEPT ![s].pc = "done", ![s].failed = TRUE,
                    ![s].answers = Append(@, "error"),
                    ![s].message = SearchErrorMessage(err)]
  /\ UNCHANGED loading

\* a catch block that forgets setError
SearchCatchKeepsError(s, err) ==
  /\ loading' = FALSE
  /\ searches' = [searches EXCEPT ![s].pc = "done", ![s].failed = TRUE,
                    ![s].answers = Append(@, "error"),
                    ![s].message = SearchErrorMessage(err)]
  /\ UNCHANGED error

\* catch (err) { setError(...) } finally { setLoading(false) }
SearchCatch(s, err) ==
  /\ error' = SearchErrorMessage(err)
  /\ loading' = FALSE
  /\ searches' = [searches EXCEPT ![s].pc = "done", ![s].failed = TRUE,
                    ![s].answers = Append(@, "error"),
                    ![s].message = SearchErrorMessage(err)]

\* an events step that forgets `if (eventsError) throw eventsError`
EventsResponseNoThrow(s, resp) ==
  /\ searches[s].pc = "events"
  /\ events' = OrEmpty(resp.data)
  /\ eventsFrom' = s
  /\ searches' = [searches EXCEPT ![s].pc = "clubs",
                    ![s].calls = Append(@, "clubs"),
                    ![s].answers = Append(@, IF resp.error # None
                                             THEN "error" ELSE "ok")]
  /\ UNCHANGED <<loading, error>>
  /\ UNCHANGED <<mounted, query, clubs, announcements,
                 clubsFrom, announcementsFrom, nonSearchVars>>

\* the events query of invocation s is answered
EventsResponse(s, resp) ==
  /\ searches[s].pc = "events"
  /\ IF resp.error # None
     THEN /\ SearchCatch(s, resp.error[1])
          /\ UNCHANGED <<events, eventsFrom>>
     ELSE /\ events' = OrEmpty(resp.data)
          /\ eventsFrom' = s
          /\ searches' = [searches EXCEPT ![s].pc = "clubs",
                            ![s].calls = Append(@, "clubs"),
                            ![s].answers = Append(@, "ok")]
          /\ UNCHANGED <<loading, error>>
  /\ UNCHANGED <<mounted, query, clubs, announcements,
                 clubsFrom, announcementsFrom, nonSearchVars>>

\* a clubs step that forgets `if (clubsError) throw clubsError`
ClubsResponseNoThrow(s, resp) ==
  /\ searches[s].pc = "clubs"
  /\ clubs' = OrEmpty(resp.data)
  /\ clubsFrom' = s
  /\ searches' = [searches EXCEPT ![s].pc = "announcements",
                    ![s].calls = Append(@, "announcements"),
                    ![s].answers = Append(@, IF resp.error # None
                                             THEN "error" ELSE "ok")]
  /\ UNCHANGED <<loading, error>>
  /\ UNCHANGED <<mounted, query, events, announcements,
                 eventsFrom, announcementsFrom, nonSearchVars>>

\* the clubs query of invocation s is answered
ClubsResponse(s, resp) ==
  /\ searches[s].pc = "clubs"
  /\ IF resp.error # None
     THEN /\ SearchCatch(s, resp.error[1])
          /\ UNCHANGED <<clubs, clubsFrom>>
     ELSE /\ clubs' = OrEmpty(resp.data)
          /\ clubsFrom' = s
          /\ searches' = [searches EXCEPT ![s].pc = "announcements",
                            ![s].calls = Append(@, "announcements"),
                            ![s].answers = Append(@, "ok")]
          /\ UNCHANGED <<loading, error>>
  /\ UNCHANGED <<mounted, query, events, announcements,
                 eventsFrom, announcementsFrom, nonSearchVars>>

\* the announcements query of invocation s is answered
AnnouncementsResponse(s, resp) ==
  /\ searches[s].pc = "announcements"
  /\ IF resp.error # None
     THEN /\ SearchCatch(s, resp.error[1])
          /\ UNCHANGED <<announcements, announcementsFrom>>
     ELSE /\ announcements' = OrEmpty(resp.data)
          /\ announcementsFrom' = s
          /\ loading' = FALSE
          /\ searches' = [searches EXCEPT ![s].pc = "done",
                            ![s].answers = Append(@, "ok")]
          /\ UNCHANGED error
  /\ UNCHANGED <<mounted, query, events, clubs, eventsFrom, clubsFrom,
                 nonSearchVars>>

\* {!loading && !error && (...)}: the category lists are on screen
ResultsShown == ~loading /\ ~Truthy(error)

SearchInit ==
  /\ mounted = FALSE
  /\ query \in QueryParams
  /\ events = <<>>
  /\ clubs = <<>>
  /\ announcements = <<>>
  /\ loading = TRUE
  /\ error = NULL
  /\ searches = <<>>
  /\ eventsFrom = 0
  /\ clubsFrom = 0
  /\ announcementsFrom = 0

SearchNext ==
  \/ Mount
  \/ \E q \in QueryParams : ChangeQuery(q)
  \/ \E s \in 1..Len(searches) :
       \E resp \in Responses(SearchRows[searches[s].q].events) :
         EventsResponse(s, resp)
  \/ \E s \in 1..Len(searches) :
       \E resp \in Responses(SearchRows[searches[s].q].clubs) :
         ClubsResponse(s, resp)
  \/ \E s \in 1..Len(searches) :
       \E resp \in Responses(SearchRows[searches[s].q].announcements) :
         AnnouncementsResponse(s, resp)

----------------------------------------------------------------------------
(* App: the home page's announcements preview and featured events *)

\* user ids of the auth store; NULL: nobody is signed in
Users == {"u1", "u2", "u3"}

\* profiles.interests of each user: an array, or null
ProfileInterests(u) ==
  CASE u = "u1" -> Some(<<"music">>)
    [] u = "u2" -> Some(<<>>)
    [] OTHER    -> None

\* rows the events table is filled from, in storage order
FeedEventsPool ==
  << [id |-> 1, title |-> "Match",   date |-> 3, image_url |-> NULL,
      category |-> "sports", club |-> "Runners"],
     [id |-> 2, title |-> "Concert", date |-> 1, image_url |-> NULL,
      category |-> "music",  club |-> "Choir"],
     [id |-> 3, title |-> "Relay",   date |-> 2, image_url |-> NULL,
      category |-> "sports", club |-> "Runners"],
     [id |-> 4, title |-> "Derby",   date |-> 2, image_url |-> NULL,
      category |-> "sports", club |-> "Runners"],
     [id |-> 5, title |-> "Recital", date |-> 4, image_url |-> NULL,
      category |-> "music",  club |-> "Choir"],
     [id |-> 6, title |-> "Opera",   date |-> 3, image_url |-> NULL,
      category |-> "music",  club |-> "Choir"] >>

FeedTable(n) == SubSeq(FeedEventsPool, 1, n)

\* the events tables and values of today the feed is computed for:
\* one upcoming sports event; the same and a past music event; four upcoming events of
\* which one is a music event; five upcoming events, two of them music events
\* and two on the same day; no upcoming event at all
FeedWorlds ==
  {[table |-> FeedTable(1), day |-> 2],
   [table |-> FeedTable(2), day |-> 2],
   [table |-> FeedTable(5), day |-> 2],
   [table |-> FeedTable(6), day |-> 2],
   [table |-> FeedTable(6), day |-> 5]}

InSeq(x, s) == \E i \in 1..Len(s) : s[i] = x

\* select(id, title, date, image_url, category, club:clubs(name))
InterestProjection(row) ==
  [id |-> row.id, title |-> row.title, date |-> row.date,
   image_url |-> row.image_url, category |-> row.category,
   club |-> <<[name |-> row.club]>>]

\* select(id, title, date, image_url, club:clubs(name))
FallbackProjection(row) ==
  [id |-> row.id, title |-> row.title, date |-> row.date,
   image_url |-> row.image_url, club |-> <<[name |-> row.club]>>]

\* .gte('date', today).in('category', userInterests)
\*   .order('date', asc).limit(3)
InterestQuery(table, day, interests) ==
  LET Matches(row) == row.date >= day /\ InSeq(row.category, interests)
      rows == Limit(OrderBy(SelectSeq(table, Matches), "date", TRUE),
                    FeaturedLimit)
  IN  [i \in 1..Len(rows) |-> InterestProjection(rows[i])]

\* a fallback query that forgets .order('date', { ascending: true })
FallbackQueryUnordered(table, day) ==
  LET Matches(row) == row.date >= day
      rows == Limit(SelectSeq(table, Matches), FeaturedLimit)
  IN  [i \in 1..Len(rows) |-> FallbackProjection(rows[i])]

\* .gte('date', today).order('date', asc).limit(3)
FallbackQuery(table, day) ==
  LET Matches(row) == row.date >= day
      rows == Limit(OrderBy(SelectSeq(table, Matches), "date", TRUE),
                    FeaturedLimit)
  IN  [i \in 1..Len(rows) |-> FallbackProjection(rows[i])]

\* the interest lists a profile can hold
InterestLists == {OrEmpty(ProfileInterests(u)) : u \in Users}

\* the rows the backend holds for the interest query, per table, day and
\* interest list
InterestRows ==
  [w \in FeedWorlds |->
     [i \in InterestLists |-> InterestQuery(w.table, w.day, i)]]

\* the rows the backend holds for the fallback query, per table and day
FallbackRows == [w \in FeedWorlds |-> FallbackQuery(w.table, w.day)]

\* from('announcements').select('*').order('created_at', desc).limit(3)
LatestAnnouncementsQuery ==
  Limit(OrderBy(SearchAnnouncementsTable, "created_at", FALSE), FeaturedLimit)

\* from('profiles').select('interests').eq('id', u).single()
ProfileResponses(u) ==
  {[data |-> Some([interests |-> ProfileInterests(u)]), error |-> None]}
    \cup {[data |-> None, error |-> Some(e)] : e \in BackendErrors}

\* fetchAnnouncements(): up to its await
fetchAnnouncements ==
  /\ loadingAnnouncements' = TRUE
  /\ annFetches' = Append(annFetches, "query")
  /\ UNCHANGED appAnnouncements

\* fetchFeaturedEvents(): up to its first await
fetchFeaturedEvents(u) ==
  /\ loadingFeaturedEvents' = TRUE
  /\ feeds' = Append(feeds,
       [uid |-> u, userInterests |-> None, result |-> None,
        pc |-> IF Truthy(u) THEN "profile" ELSE "fallback",
        calls |-> IF Truthy(u) THEN <<"profile">> ELSE <<"fallback">>,
        answers |-> <<>>, failed |-> FALSE])
  /\ UNCHANGED <<featuredEvents, featuredFrom>>

\* the body of useEffect(..., [user?.id])
AppEffect(u) ==
  /\ Len(feeds) < MaxFeedRuns
  /\ fetchAnnouncements
  /\ fetchFeaturedEvents(u)

AppMount ==
  /\ page = "home"
  /\ ~appMounted
  /\ appMounted' = TRUE
  /\ AppEffect(user)
  /\ UNCHANGED <<user, eventsTable, today, nonAppVars>>

\* sign-in: user?.id changes from none to u and the effect runs again
SignIn(u) ==
  /\ appMounted
  /\ ~Truthy(user)
  /\ user' = u
  /\ AppEffect(u)
  /\ UNCHANGED <<appMounted, eventsTable, today, nonAppVars>>

\* sign-out: user?.id changes to none and the effect runs again
SignOut ==
  /\ appMounted
  /\ Truthy(user)
  /\ user' = NULL
  /\ AppEffect(NULL)
  /\ UNCHANGED <<appMounted, eventsTable, today, nonAppVars>>

\* the announcements query of invocation a is answered
LatestAnnouncementsResponse(a, resp) ==
  /\ annFetches[a] = "query"
  /\ appAnnouncements' = IF resp.error # None THEN appAnnouncements
                         ELSE OrEmpty(resp.data)
  /\ loadingAnnouncements' = FALSE
  /\ annFetches' = [annFetches EXCEPT ![a] = "done"]
  /\ UNCHANGED <<appMounted, user, featuredEvents, loadingFeaturedEvents,
                 feeds, featuredFrom, eventsTable, today, nonAppVars>>

\* a catch block without the finally block
FeedCatchKeepsLoading(f) ==
  /\ featuredEvents' = <<>>
  /\ featuredFrom' = f
  /\ UNCHANGED loadingFeaturedEvents
  /\ feeds' = [feeds EXCEPT ![f].pc = "done", ![f].failed = TRUE,
                            ![f].answers = Append(@, "error")]

\* catch { setFeaturedEvents([]) } finally { setLoadingFeaturedEvents(false) }
FeedCatch(f) ==
  /\ featuredEvents' = <<>>
  /\ featuredFrom' = f
  /\ loadingFeaturedEvents' = FALSE
  /\ feeds' = [feeds EXCEPT ![f].pc = "done", ![f].failed = TRUE,
                            ![f].answers = Append(@, "error")]

\* setFeaturedEvents(fetchedEvents); finally { setLoadingFeaturedEvents(false) }
FeedFinish(f, fetchedEvents, interests) ==
  /\ featuredEvents' = fetchedEvents
  /\ featuredFrom' = f
  /\ loadingFeaturedEvents' = FALSE
  /\ feeds' = [feeds EXCEPT ![f].pc = "done", ![f].userInterests = interests,
                            ![f].result = Some(fetchedEvents),
                            ![f].answers = Append(@, "ok")]

\* step 3 is entered with fetchedEvents = []: the fallback query is issued
\* (answered says how the query before it was answered)
FeedIssueFallback(f, interests, answered) ==
  /\ feeds' = [feeds EXCEPT ![f].pc = "fallback",
                            ![f].userInterests = interests,
                            ![f].calls = Append(@, "fallback"),
                            ![f].answers = Append(@, answered)]
  /\ UNCHANGED <<featuredEvents, featuredFrom, loadingFeaturedEvents>>

\* profileData && Array.isArray(profileData.interests) ? interests : null
InterestsRead(resp) ==
  IF resp.data # None /\ resp.data[1].interests # None
  THEN resp.data[1].interests
  ELSE None

\* a test that forgets `userInterests.length > 0`
HasInterestsNotNull(interests) == interests # None

\* userInterests && userInterests.length > 0
HasInterests(interests) == interests # None /\ Len(interests[1]) > 0

\* "ok" or "error": how the backend answered
Answered(resp) == IF resp.error # None THEN "error" ELSE "ok"

\* a profile read whose error is thrown to the catch block
ProfileResponseThrows(f, resp) ==
  /\ feeds[f].pc = "profile"
  /\ LET interests == InterestsRead(resp)
     IN  IF resp.error # None
         THEN FeedCatch(f)
         ELSE IF HasInterests(interests)
         THEN /\ feeds' = [feeds EXCEPT ![f].pc = "interest",
                                        ![f].userInterests = interests,
                                        ![f].calls = Append(@, "interest"),
                                        ![f].answers = Append(@, Answered(resp))]
              /\ UNCHANGED <<featuredEvents, featuredFrom,
                             loadingFeaturedEvents>>
         ELSE FeedIssueFallback(f, interests, Answered(resp))
  /\ UNCHANGED <<appMounted, user, appAnnouncements, loadingAnnouncements,
                 annFetches, eventsTable, today, nonAppVars>>

\* the profile read of invocation f is answered; its error is only logged
ProfileResponse(f, resp) ==
  /\ feeds[f].pc = "profile"
  /\ LET interests == InterestsRead(resp)
     IN  IF HasInterests(interests)
         THEN /\ feeds' = [feeds EXCEPT ![f].pc = "interest",
                                        ![f].userInterests = interests,
                                        ![f].calls = Append(@, "interest"),
                                        ![f].answers = Append(@, Answered(resp))]
              /\ UNCHANGED <<featuredEvents, featuredFrom,
                             loadingFeaturedEvents>>
         ELSE FeedIssueFallback(f, interests, Answered(resp))
  /\ UNCHANGED <<appMounted, user, appAnnouncements, loadingAnnouncements,
                 annFetches, eventsTable, today, nonAppVars>>

\* a step 2 that falls back only when there is no interest list at all
InterestResponseNoFallback(f, resp) ==
  /\ feeds[f].pc = "interest"
  /\ IF resp.error # None
     THEN FeedCatch(f)
     ELSE FeedFinish(f, OrEmpty(resp.data), feeds[f].userInterests)
  /\ UNCHANGED <<appMounted, user, appAnnouncements, loadingAnnouncements,
                 annFetches, eventsTable, today, nonAppVars>>

\* a step 3 that forgets the `fetchedEvents.length === 0` test
InterestResponseThenFallback(f, resp) ==
  /\ feeds[f].pc = "interest"
  /\ IF resp.error # None
     THEN FeedCatch(f)
     ELSE FeedIssueFallback(f, feeds[f].userInterests, "ok")
  /\ UNCHANGED <<appMounted, user, appAnnouncements, loadingAnnouncements,
                 annFetches, eventsTable, today, nonAppVars>>

\* the interest-filtered events query of invocation f is answered
InterestResponse(f, resp) ==
  /\ feeds[f].pc = "interest"
  /\ IF resp.error # None
     THEN FeedCatch(f)
     ELSE IF resp.data # None /\ Len(resp.data[1]) > 0
          THEN FeedFinish(f, resp.data[1], feeds[f].userInterests)
          ELSE FeedIssueFallback(f, feeds[f].userInterests, "ok")
  /\ UNCHANGED <<appMounted, user, appAnnouncements, loadingAnnouncements,
                 annFetches, eventsTable, today, nonAppVars>>

\* the unfiltered events query of invocation f is answered
FallbackResponse(f, resp) ==
  /\ feeds[f].pc = "fallback"
  /\ IF resp.error # None
     THEN FeedCatch(f)
     ELSE FeedFinish(f, OrEmpty(resp.data), feeds[f].userInterests)
  /\ UNCHANGED <<appMounted, user, appAnnouncements, loadingAnnouncements,
                 annFetches, eventsTable, today, nonAppVars>>

AppInit ==
  /\ appMounted = FALSE
  /\ user \in Users \cup {NULL}
  /\ appAnnouncements = <<>>
  /\ loadingAnnouncements = TRUE
  /\ featuredEvents = <<>>
  /\ loadingFeaturedEvents = TRUE
  /\ annFetches = <<>>
  /\ feeds = <<>>
  /\ featuredFrom = 0
  /\ \E w \in FeedWorlds : eventsTable = w.table /\ today = w.day

AppNext ==
  \/ AppMount
  \/ \E u \in Users : SignIn(u)
  \/ SignOut
  \/ \E a \in 1..Len(annFetches) :
       \E resp \in Responses(LatestAnnouncementsQuery) :
         LatestAnnouncementsResponse(a, resp)
  \/ \E f \in 1..Len(feeds) :
       \E resp \in ProfileResponses(feeds[f].uid) : ProfileResponse(f, resp)
  \/ \E f \in 1..Len(feeds) :
       \E resp \in Responses(InterestRows[[table |-> eventsTable,
                                             day |-> today]]
                                          [OrEmpty(feeds[f].userInterests)]) :
         InterestResponse(f, resp)
  \/ \E f \in 1..Len(feeds) :
       \E resp \in Responses(FallbackRows[[table |-> eventsTable,
                                             day |-> today]]) :
         FallbackResponse(f, resp)

\* the home page while the search page is being exercised, and conversely
AppIdle ==
  /\ appMounted = FALSE
  /\ user = NULL
  /\ appAnnouncements = <<>>
  /\ loadingAnnouncements = TRUE
  /\ featuredEvents = <<>>
  /\ loadingFeaturedEvents = TRUE
  /\ annFetches = <<>>
  /\ feeds = <<>>
  /\ featuredFrom = 0
  /\ eventsTable = SearchEventsTable
  /\ today = 1

SearchIdle ==
  /\ mounted = FALSE
  /\ query = NULL
  /\ events = <<>>
  /\ clubs = <<>>
  /\ announcements = <<>>
  /\ loading = TRUE
  /\ error = NULL
  /\ searches = <<>>
  /\ eventsFrom = 0
  /\ clubsFrom = 0
  /\ announcementsFrom = 0

-----------------------------------------------------------------------------
(* Clubs page *)

ClubIds == {"c1", "c2"}

\* the clubs whose buttons are clicked
ClickedClubIds == {"c1"}

\* the clubs table when the page is opened
ClubsTableInit ==
  <<[id |-> "c1", created_by |-> "u1"], [id |-> "c2", created_by |-> "u2"]>>

\* the club_memberships table when the page is opened
MembershipsTableInit ==
  <<[club_id |-> "c1", user_id |-> "u1"], [club_id |-> "c2", user_id |-> "u1"],
    [club_id |-> "c2", user_id |-> "u2"]>>

\* supabase.from('clubs').select('*, created_by')
ClubsSelect(table) == table

\* .from('club_memberships').select('club_id').eq('user_id', user.id)
MembershipsSelect(table, uid) ==
  LET Mine(row) == row.user_id = uid
      rows == SelectSeq(table, Mine)
  IN  [i \in 1..Len(rows) |-> [club_id |-> rows[i].club_id]]

\* new Set(membershipData?.map(m => m.club_id) || [])
MembershipSet(data) ==
  LET rows == OrEmpty(data)
  IN  {rows[i].club_id : i \in 1..Len(rows)}

\* .from('club_memberships').insert({ club_id, user_id })
MembershipsInsert(table, c, uid) ==
  Append(table, [club_id |-> c, user_id |-> uid])

\* .from('club_memberships').delete().eq('club_id', c).eq('user_id', uid)
MembershipsDelete(table, c, uid) ==
  LET Kept(row) == ~(row.club_id = c /\ row.user_id = uid)
  IN  SelectSeq(table, Kept)

\* .from('clubs').delete().eq('id', c)
ClubsDelete(table, c) ==
  LET Kept(row) == row.id # c
  IN  SelectSeq(table, Kept)

\* err instanceof Error ? err.message : 'Failed to load data'
ClubsErrorMessage(err) ==
  IF err.isError THEN err.message ELSE "Failed to load data"

\* one invocation of fetchData or of a handler, as it starts
ClubRun(kind, c, uid, pc, calls, sawNoClubs) ==
  [kind |-> kind, clubId |-> c, uid |-> uid, pc |-> pc, calls |-> calls,
   answers |-> <<>>, failed |-> FALSE, clubsData |-> None,
   sawNoClubs |-> sawNoClubs]

\* fetchData(): up to its first await
fetchData(uid, sawNoClubs) ==
  /\ clubsLoading' = (sawNoClubs \/ clubsLoading)
  /\ clubRuns' = Append(clubRuns,
       ClubRun("fetch", NULL, uid, "clubs", <<"clubs">>, sawNoClubs))

\* useEffect(() => { fetchData(); }, [fetchData]) on mount
ClubsMount ==
  /\ page = "clubs"
  /\ ~clubsMounted
  /\ Len(clubRuns) < MaxClubRuns
  /\ clubsMounted' = TRUE
  /\ fetchData(clubsUser, fetchDataSawNoClubs)
  /\ UNCHANGED <<clubsUser, clubList, memberships, clubsError,
                 actionLoadingClubId, fetchDataSawNoClubs, clubsTable,
                 membershipsTable, nonClubsVars>>

\* user?.id changes: fetchData is memoized anew and the effect runs it
ClubsUserChange(u) ==
  /\ clubsMounted
  /\ Len(clubRuns) < MaxClubRuns
  /\ Truthy(u) # Truthy(clubsUser)
  /\ clubsUser' = u
  /\ fetchDataSawNoClubs' = (Len(clubList) = 0)
  /\ fetchData(u, Len(clubList) = 0)
  /\ UNCHANGED <<clubsMounted, clubList, memberships, clubsError,
                 actionLoadingClubId, clubsTable, membershipsTable,
                 nonClubsVars>>

\* onClose of CreateClubModal / EditClubModal: fetchData()
ClubModalClose ==
  /\ clubsMounted
  /\ Len(clubRuns) < MaxClubRuns
  /\ fetchData(clubsUser, fetchDataSawNoClubs)
  /\ UNCHANGED <<clubsMounted, clubsUser, clubList, memberships, clubsError,
                 actionLoadingClubId, fetchDataSawNoClubs, clubsTable,
                 membershipsTable, nonClubsVars>>

\* finally of handleDeleteClub, reached when the awaited fetchData returns
DeleteFinally(r) ==
  actionLoadingClubId' = IF clubRuns[r].kind = "delete"
                         THEN NULL ELSE actionLoadingClubId

\* a catch block that also clears the lists
ClubsFetchCatchClearsData(r, err) ==
  /\ clubsError' = ClubsErrorMessage(err)
  /\ clubList' = <<>>
  /\ memberships' = {}
  /\ clubsLoading' = FALSE
  /\ DeleteFinally(r)
  /\ clubRuns' = [clubRuns EXCEPT ![r].pc = "done", ![r].failed = TRUE,
                                  ![r].answers = Append(@, "error")]

\* catch (err) { setError(...) } finally { setLoading(false) }
ClubsFetchCatch(r, err) ==
  /\ clubsError' = ClubsErrorMessage(err)
  /\ clubsLoading' = FALSE
  /\ DeleteFinally(r)
  /\ clubRuns' = [clubRuns EXCEPT ![r].pc = "done", ![r].failed = TRUE,
                                  ![r].answers = Append(@, "error")]
  /\ UNCHANGED <<clubList, memberships>>

\* setClubs; setMemberships; setError(null); finally { setLoading(false) }
ClubsFetchFinish(r, clubsData, userMemberships) ==
  /\ clubList' = clubsData
  /\ memberships' = userMemberships
  /\ clubsError' = NULL
  /\ clubsLoading' = FALSE
  /\ DeleteFinally(r)
  /\ clubRuns' = [clubRuns EXCEPT ![r].pc = "done", ![r].clubsData = None,
                                  ![r].answers = Append(@, "ok")]

\* the clubs query of invocation r is answered
ClubsQueryResponse(r, resp) ==
  /\ clubRuns[r].pc = "clubs"
  /\ IF resp.error # None
     THEN ClubsFetchCatch(r, resp.error[1])
     ELSE IF Truthy(clubRuns[r].uid)
          THEN /\ clubRuns' = [clubRuns EXCEPT
                                 ![r].pc = "memberships",
                                 ![r].calls = Append(@, "memberships"),
                                 ![r].answers = Append(@, "ok"),
                                 ![r].clubsData = resp.data]
               /\ UNCHANGED <<clubList, memberships, clubsLoading,
                              clubsError, actionLoadingClubId>>
          ELSE ClubsFetchFinish(r, OrEmpty(resp.data), {})
  /\ UNCHANGED <<clubsMounted, clubsUser, fetchDataSawNoClubs, clubsTable,
                 membershipsTable, nonClubsVars>>

\* the memberships query of invocation r is answered
MembershipsResponse(r, resp) ==
  /\ clubRuns[r].pc = "memberships"
  /\ IF resp.error # None
     THEN ClubsFetchCatch(r, resp.error[1])
     ELSE ClubsFetchFinish(r, OrEmpty(clubRuns[r].clubsData),
                           MembershipSet(resp.data))
  /\ UNCHANGED <<clubsMounted, clubsUser, fetchDataSawNoClubs, clubsTable,
                 membershipsTable, nonClubsVars>>

\* a handler that returns before any await: if (!user) return, or the
\* confirm dialog was dismissed
HandlerReturns(kind, c) ==
  /\ clubRuns' = Append(clubRuns,
       ClubRun(kind, c, clubsUser, "done", <<>>, fetchDataSawNoClubs))
  /\ UNCHANGED actionLoadingClubId

\* a handler up to its await: setActionLoadingClubId(clubId), then the call
HandlerCalls(kind, c, call) ==
  /\ actionLoadingClubId' = c
  /\ clubRuns' = Append(clubRuns,
       ClubRun(kind, c, clubsUser, call, <<call>>, fetchDataSawNoClubs))

\* handleJoin(clubId): up to its await; the buttons of a club are disabled
\* while actionLoadingClubId === club.id
handleJoin(c) ==
  /\ clubsMounted
  /\ actionLoadingClubId # c
  /\ Len(clubRuns) < MaxClubRuns
  /\ IF ~Truthy(clubsUser)
     THEN HandlerReturns("join", c)
     ELSE HandlerCalls("join", c, "insert")
  /\ UNCHANGED <<clubsMounted, clubsUser, clubList, memberships,
                 clubsLoading, clubsError, fetchDataSawNoClubs, clubsTable,
                 membershipsTable, nonClubsVars>>

\* handleLeave(clubId): up to its await
handleLeave(c) ==
  /\ clubsMounted
  /\ actionLoadingClubId # c
  /\ Len(clubRuns) < MaxClubRuns
  /\ IF ~Truthy(clubsUser)
     THEN HandlerReturns("leave", c)
     ELSE HandlerCalls("leave", c, "remove")
  /\ UNCHANGED <<clubsMounted, clubsUser, clubList, memberships,
                 clubsLoading, clubsError, fetchDataSawNoClubs, clubsTable,
                 membershipsTable, nonClubsVars>>

\* handleDeleteClub(clubId): up to its await; confirmed is the answer
\* of window.confirm
handleDeleteClub(c, confirmed) ==
  /\ clubsMounted
  /\ actionLoadingClubId # c
  /\ Len(clubRuns) < MaxClubRuns
  /\ IF ~Truthy(clubsUser) \/ ~confirmed
     THEN HandlerReturns("delete", c)
     ELSE HandlerCalls("delete", c, "delete")
  /\ UNCHANGED <<clubsMounted, clubsUser, clubList, memberships,
                 clubsLoading, clubsError, fetchDataSawNoClubs, clubsTable,
                 membershipsTable, nonClubsVars>>

\* the handler's catch { alert } and finally { setActionLoadingClubId(null) }
HandlerCatch(r) ==
  /\ actionLoadingClubId' = NULL
  /\ clubRuns' = [clubRuns EXCEPT ![r].pc = "done", ![r].failed = TRUE,
                                  ![r].answers = Append(@, "error")]

\* a join whose `if (error) throw error` is missing
JoinResponseIgnoresError(r, resp) ==
  /\ clubRuns[r].pc = "insert"
  /\ memberships' = memberships \cup {clubRuns[r].clubId}
  /\ actionLoadingClubId' = NULL
  /\ clubRuns' = [clubRuns EXCEPT ![r].pc = "done",
                                  ![r].answers = Append(@, Answered(resp))]
  /\ membershipsTable' =
       IF resp.error # None THEN membershipsTable
       ELSE MembershipsInsert(membershipsTable, clubRuns[r].clubId,
                              clubRuns[r].uid)
  /\ UNCHANGED <<clubsMounted, clubsUser, clubList, clubsLoading, clubsError,
                 fetchDataSawNoClubs, clubsTable, nonClubsVars>>

\* the insert of join r is answered
JoinResponse(r, resp) ==
  /\ clubRuns[r].pc = "insert"
  /\ IF resp.error # None
     THEN /\ HandlerCatch(r)
          /\ UNCHANGED <<memberships, membershipsTable>>
     ELSE /\ memberships' = memberships \cup {clubRuns[r].clubId}
          /\ membershipsTable' =
               MembershipsInsert(membershipsTable, clubRuns[r].clubId,
                                 clubRuns[r].uid)
          /\ actionLoadingClubId' = NULL
          /\ clubRuns' = [clubRuns EXCEPT ![r].pc = "done",
                                          ![r].answers = Append(@, "ok")]
  /\ UNCHANGED <<clubsMounted, clubsUser, clubList, clubsLoading, clubsError,
                 fetchDataSawNoClubs, clubsTable, nonClubsVars>>

\* a leave that issues its delete again when the delete failed
LeaveResponseRetries(r, resp) ==
  /\ clubRuns[r].pc = "remove"
  /\ IF resp.error # None
     THEN /\ clubRuns' = [clubRuns EXCEPT
                            ![r].calls = Append(@, "remove"),
                            ![r].answers = Append(@, "error")]
          /\ UNCHANGED <<memberships, membershipsTable, actionLoadingClubId>>
     ELSE /\ memberships' = memberships \ {clubRuns[r].clubId}
          /\ membershipsTable' =
               MembershipsDelete(membershipsTable, clubRuns[r].clubId,
                                 clubRuns[r].uid)
          /\ actionLoadingClubId' = NULL
          /\ clubRuns' = [clubRuns EXCEPT ![r].pc = "done",
                                          ![r].answers = Append(@, "ok")]
  /\ UNCHANGED <<clubsMounted, clubsUser, clubList, clubsLoading, clubsError,
                 fetchDataSawNoClubs, clubsTable, nonClubsVars>>

\* the delete of leave r is answered
LeaveResponse(r, resp) ==
  /\ clubRuns[r].pc = "remove"
  /\ IF resp.error # None
     THEN /\ HandlerCatch(r)
          /\ UNCHANGED <<memberships, membershipsTable>>
     ELSE /\ memberships' = memberships \ {clubRuns[r].clubId}
          /\ membershipsTable' =
               MembershipsDelete(membershipsTable, clubRuns[r].clubId,
                                 clubRuns[r].uid)
          /\ actionLoadingClubId' = NULL
          /\ clubRuns' = [clubRuns EXCEPT ![r].pc = "done",
                                          ![r].answers = Append(@, "ok")]
  /\ UNCHANGED <<clubsMounted, clubsUser, clubList, clubsLoading, clubsError,
                 fetchDataSawNoClubs, clubsTable, nonClubsVars>>

\* the delete of club deletion r is answered; on success `await fetchData()`
\* runs fetchData up to its first await
DeleteResponse(r, resp) ==
  /\ clubRuns[r].pc = "delete"
  /\ IF resp.error # None
     THEN /\ HandlerCatch(r)
          /\ UNCHANGED <<clubsTable, clubsLoading>>
     ELSE /\ clubsTable' = ClubsDelete(clubsTable, clubRuns[r].clubId)
          /\ clubsLoading' = (clubRuns[r].sawNoClubs \/ clubsLoading)
          /\ clubRuns' = [clubRuns EXCEPT ![r].pc = "clubs",
                                          ![r].calls = Append(@, "clubs"),
                                          ![r].answers = Append(@, "ok")]
          /\ UNCHANGED actionLoadingClubId
  /\ UNCHANGED <<clubsMounted, clubsUser, clubList, memberships, clubsError,
                 fetchDataSawNoClubs, membershipsTable, nonClubsVars>>

ClubUsers == {NULL, "u1"}

ClubsInit ==
  /\ clubsMounted = FALSE
  /\ clubsUser \in ClubUsers
  /\ clubList = <<>>
  /\ memberships = {}
  /\ clubsLoading = TRUE
  /\ clubsError = NULL
  /\ actionLoadingClubId = NULL
  /\ fetchDataSawNoClubs = TRUE
  /\ clubRuns = <<>>
  /\ clubsTable = ClubsTableInit
  /\ membershipsTable = MembershipsTableInit

ClubsNext ==
  \/ ClubsMount
  \/ \E u \in ClubUsers : ClubsUserChange(u)
  \/ ClubModalClose
  \/ \E c \in ClickedClubIds : handleJoin(c)
  \/ \E c \in ClickedClubIds : handleLeave(c)
  \/ \E c \in ClickedClubIds : \E confirmed \in BOOLEAN :
       handleDeleteClub(c, confirmed)
  \/ \E r \in 1..Len(clubRuns) :
       \E resp \in Responses(ClubsSelect(clubsTable)) :
         ClubsQueryResponse(r, resp)
  \/ \E r \in 1..Len(clubRuns) :
       \E resp \in Responses(MembershipsSelect(membershipsTable,
                                               clubRuns[r].uid)) :
         MembershipsResponse(r, resp)
  \/ \E r \in 1..Len(clubRuns) :
       \E resp \in Responses(<<>>) : JoinResponse(r, resp)
  \/ \E r \in 1..Len(clubRuns) :
       \E resp \in Responses(<<>>) : LeaveResponse(r, resp)
  \/ \E r \in 1..Len(clubRuns) :
       \E resp \in Responses(<<>>) : DeleteResponse(r, resp)

\* the clubs page before it is opened
ClubsIdle ==
  /\ clubsMounted = FALSE
  /\ clubsUser = NULL
  /\ clubList = <<>>
  /\ memberships = {}
  /\ clubsLoading = TRUE
  /\ clubsError = NULL
  /\ actionLoadingClubId = NULL
  /\ fetchDataSawNoClubs = TRUE
  /\ clubRuns = <<>>
  /\ clubsTable = ClubsTableInit
  /\ membershipsTable = MembershipsTableInit

-----------------------------------------------------------------------------
(* EditAnnouncementModal *)

\* user.is_admin
IsAdmin(u) == u = "u3"

\* the announcements table when the modal is used; texts are sequences of
\* characters
AnnouncementsTableInit ==
  <<[id |-> "a1", title |-> <<"T">>, content |-> <<"C">>,
     created_by |-> "u1"],
    [id |-> "a2", title |-> <<"T">>, content |-> <<"C">>,
     created_by |-> "u2"]>>

\* what is typed into the title and content fields
TextInputs == {<<" ">>, <<" ", "N", " ">>}

RECURSIVE TrimStart(_)
\* String.prototype.trimStart
TrimStart(s) ==
  IF s # <<>> /\ Head(s) = " " THEN TrimStart(Tail(s)) ELSE s

RECURSIVE TrimEnd(_)
\* String.prototype.trimEnd
TrimEnd(s) ==
  IF s # <<>> /\ s[Len(s)] = " "
  THEN TrimEnd(SubSeq(s, 1, Len(s) - 1))
  ELSE s

\* String.prototype.trim
Trim(s) == TrimEnd(TrimStart(s))

\* guards that test the texts as typed, without trim()
EditGuardErrorNoTrim(a, u, t, c) ==
  IF a = None
  THEN "No announcement selected for editing."
  ELSE IF ~Truthy(u) \/ ~(u = a[1].created_by \/ IsAdmin(u))
  THEN "You don't have permission to edit this announcement."
  ELSE IF t = <<>> \/ c = <<>>
  THEN "Title and content cannot be empty."
  ELSE NULL

\* the three guards of handleSubmit: the message of the first that fails
EditGuardError(a, u, t, c) ==
  IF a = None
  THEN "No announcement selected for editing."
  ELSE IF ~Truthy(u) \/ ~(u = a[1].created_by \/ IsAdmin(u))
  THEN "You don't have permission to edit this announcement."
  ELSE IF Trim(t) = <<>> \/ Trim(c) = <<>>
  THEN "Title and content cannot be empty."
  ELSE NULL

\* .from('announcements').update({ title, content }).eq('id', id)
AnnouncementsUpdate(table, id, t, c) ==
  [i \in 1..Len(table) |->
     IF table[i].id = id
     THEN [table[i] EXCEPT !.title = t, !.content = c]
     ELSE table[i]]

\* err instanceof Error ? err.message : "Failed to update announcement."
EditErrorMessage(err) ==
  IF err.isError THEN err.message ELSE "Failed to update announcement."

\* the parent renders the modal open for announcement a (or for none); the
\* effect on [announcement] pre-fills the form when the prop changed
EditOpen(a) ==
  /\ page = "edit"
  /\ ~editOpen
  /\ editOpen' = TRUE
  /\ editAnnouncement' = a
  /\ IF a = editAnnouncement
     THEN UNCHANGED <<title, content>>
     ELSE IF a # None
          THEN title' = a[1].title /\ content' = a[1].content
          ELSE title' = <<>> /\ content' = <<>>
  /\ UNCHANGED <<editUser, editLoading, editError, editSubmits,
                 announcementsTable, nonEditVars>>

\* the form is on screen: !(!isOpen || !announcement)
EditRendered == editOpen /\ editAnnouncement # None

\* onChange of the title input
SetTitle(t) ==
  /\ EditRendered
  /\ t # title
  /\ title' = t
  /\ UNCHANGED <<editOpen, editAnnouncement, editUser, content, editLoading,
                 editError, editSubmits, announcementsTable, nonEditVars>>

\* onChange of the content textarea
SetContent(c) ==
  /\ EditRendered
  /\ c # content
  /\ content' = c
  /\ UNCHANGED <<editOpen, editAnnouncement, editUser, title, editLoading,
                 editError, editSubmits, announcementsTable, nonEditVars>>

\* handleSubmit: up to its await, or to the return of a failed guard; the
\* submit button is disabled while loading
EditHandleSubmit ==
  /\ page = "edit"
  /\ Len(editSubmits) < MaxSubmits
  /\ ~editLoading
  /\ LET failure == EditGuardError(editAnnouncement, editUser, title, content)
     IN  IF failure # NULL
         THEN /\ editError' = failure
              /\ editSubmits' = Append(editSubmits,
                   [id |-> NULL, title |-> <<>>, content |-> <<>>,
                    pc |-> "done", calls |-> <<>>, answers |-> <<>>,
                    failed |-> TRUE, closed |-> FALSE])
              /\ UNCHANGED editLoading
         ELSE /\ editLoading' = TRUE
              /\ editError' = NULL
              /\ editSubmits' = Append(editSubmits,
                   [id |-> editAnnouncement[1].id, title |-> Trim(title),
                    content |-> Trim(content), pc |-> "update",
                    calls |-> <<"update">>, answers |-> <<>>,
                    failed |-> FALSE, closed |-> FALSE])
  /\ UNCHANGED <<editOpen, editAnnouncement, editUser, title, content,
                 announcementsTable, nonEditVars>>

\* an update step that closes the modal whatever the answer
EditUpdateResponseAlwaysCloses(r, resp) ==
  /\ editSubmits[r].pc = "update"
  /\ editOpen' = FALSE
  /\ editLoading' = FALSE
  /\ IF resp.error # None
     THEN /\ editError' = EditErrorMessage(resp.error[1])
          /\ editSubmits' = [editSubmits EXCEPT
                               ![r].title = <<>>, ![r].content = <<>>,
                               ![r].pc = "done", ![r].failed = TRUE,
                               ![r].closed = TRUE,
                               ![r].answers = Append(@, "error")]
          /\ UNCHANGED announcementsTable
     ELSE /\ announcementsTable' =
               AnnouncementsUpdate(announcementsTable, editSubmits[r].id,
                                   editSubmits[r].title,
                                   editSubmits[r].content)
          /\ editSubmits' = [editSubmits EXCEPT
                               ![r].title = <<>>, ![r].content = <<>>,
                               ![r].pc = "done", ![r].closed = TRUE,
                               ![r].answers = Append(@, "ok")]
          /\ UNCHANGED editError
  /\ UNCHANGED <<editAnnouncement, editUser, title, content, nonEditVars>>

\* the update of submit r is answered: onClose() on success, setError on
\* failure, setLoading(false) in both
EditUpdateResponse(r, resp) ==
  /\ editSubmits[r].pc = "update"
  /\ editLoading' = FALSE
  /\ IF resp.error # None
     THEN /\ editError' = EditErrorMessage(resp.error[1])
          /\ editSubmits' = [editSubmits EXCEPT
                               ![r].title = <<>>, ![r].content = <<>>,
                               ![r].pc = "done", ![r].failed = TRUE,
                               ![r].answers = Append(@, "error")]
          /\ UNCHANGED <<editOpen, announcementsTable>>
     ELSE /\ announcementsTable' =
               AnnouncementsUpdate(announcementsTable, editSubmits[r].id,
                                   editSubmits[r].title,
                                   editSubmits[r].content)
          /\ editOpen' = FALSE
          /\ editSubmits' = [editSubmits EXCEPT
                               ![r].title = <<>>, ![r].content = <<>>,
                               ![r].pc = "done", ![r].closed = TRUE,
                               ![r].answers = Append(@, "ok")]
          /\ UNCHANGED editError
  /\ UNCHANGED <<editAnnouncement, editUser, title, content, nonEditVars>>

\* handleClose: setError(null); setLoading(false); onClose()
EditHandleClose ==
  /\ EditRendered
  /\ editError' = NULL
  /\ editLoading' = FALSE
  /\ editOpen' = FALSE
  /\ UNCHANGED <<editAnnouncement, editUser, title, content, editSubmits,
                 announcementsTable, nonEditVars>>

\* the announcement objects the parent can pass
AnnouncementProps ==
  {None} \cup {Some(AnnouncementsTableInit[i]) :
                 i \in 1..Len(AnnouncementsTableInit)}

\* no user, the creator of a1 (not of a2), an admin
EditUsers == {NULL, "u1", "u3"}

EditInit ==
  /\ editOpen = FALSE
  /\ editAnnouncement = None
  /\ editUser \in EditUsers
  /\ title = <<>>
  /\ content = <<>>
  /\ editLoading = FALSE
  /\ editError = NULL
  /\ editSubmits = <<>>
  /\ announcementsTable = AnnouncementsTableInit

EditNext ==
  \/ \E a \in AnnouncementProps : EditOpen(a)
  \/ \E t \in TextInputs : SetTitle(t)
  \/ \E c \in TextInputs : SetContent(c)
  \/ EditHandleSubmit
  \/ \E r \in 1..Len(editSubmits) :
       \E resp \in Responses(<<>>) : EditUpdateResponse(r, resp)
  \/ EditHandleClose

\* the modal before it is used
EditIdle ==
  /\ editOpen = FALSE
  /\ editAnnouncement = None
  /\ editUser = NULL
  /\ title = <<>>
  /\ content = <<>>
  /\ editLoading = FALSE
  /\ editError = NULL
  /\ editSubmits = <<>>
  /\ announcementsTable = AnnouncementsTableInit

-----------------------------------------------------------------------------
(* AuthModal *)

AuthModes == {"signin", "signup", "reset"}

\* the words of an error message
Words(m) ==
  CASE m = "Invalid login credentials" -> <<"Invalid", "login", "credentials">>
    [] m = "AuthApiError: User already registered" ->
         <<"AuthApiError:", "User", "already", "registered">>
    [] m = "User already exists" -> <<"User", "already", "exists">>
    [] m = "User already registered" -> <<"User", "already", "registered">>
    [] m = "Full name is required" -> <<"Full", "name", "is", "required">>
    [] m = "Password reset functionality not available." ->
         <<"Password", "reset", "functionality", "not", "available.">>
    [] OTHER -> <<m>>

\* String.prototype.includes, word by word
Includes(m, part) ==
  LET w == Words(m)
      p == Words(part)
  IN  \E i \in 0..(Len(w) - Len(p)) :
        \A j \in 1..Len(p) : w[i + j] = p[j]

\* what signIn, signUp and resetPassword can throw
AuthThrown ==
  {[isError |-> TRUE, message |-> "Invalid login credentials"],
   [isError |-> TRUE, message |-> "AuthApiError: User already registered"],
   [isError |-> TRUE, message |-> "User already exists"],
   [isError |-> FALSE, message |-> "rejected"]}

\* how an awaited store operation ends
AuthOutcomes ==
  {[thrown |-> None]} \cup {[thrown |-> Some(e)] : e \in AuthThrown}

\* a catch block that shows the "already registered" error without
\* setMode('signin')
AuthCatchErrorKeepsMode(err) ==
  IF err.isError
  THEN IF \/ Includes(err.message, "User already registered")
          \/ Includes(err.message, "User already exists")
       THEN [error |->
               "This email is already registered. Please sign in instead.",
             signin |-> FALSE]
       ELSE [error |-> err.message, signin |-> FALSE]
  ELSE [error |-> "An error occurred", signin |-> FALSE]

\* the catch block of handleSubmit: the error shown, and whether the mode
\* is set to signin
AuthCatchError(err) ==
  IF err.isError
  THEN IF \/ Includes(err.message, "User already registered")
          \/ Includes(err.message, "User already exists")
       THEN [error |->
               "This email is already registered. Please sign in instead.",
             signin |-> TRUE]
       ELSE [error |-> err.message, signin |-> FALSE]
  ELSE [error |-> "An error occurred", signin |-> FALSE]

\* catch (err) { ... } run by submit r, or by a submit that is starting
AuthCatch(err) ==
  /\ authError' = AuthCatchError(err).error
  /\ mode' = IF AuthCatchError(err).signin THEN "signin" ELSE mode

\* the message shown after a successful sign-up or reset request
AuthSuccessMessage(m) ==
  IF m = "signup"
  THEN "Sign up successful! Please check your email to verify your account."
  ELSE "If an account exists for this email, a password reset link has been sent."

\* one invocation of handleSubmit
AuthRun(m, pc, calls, failed) ==
  [mode |-> m, pc |-> pc, calls |-> calls, answers |-> <<>>,
   failed |-> failed, closed |-> FALSE]

\* the parent renders the modal open
AuthOpen ==
  /\ page = "auth"
  /\ ~authOpen
  /\ authOpen' = TRUE
  /\ UNCHANGED <<mode, email, password, fullName, authError, message,
                 authSubmits, initialMode, hasResetPassword, nonAuthVars>>

\* the close button: reset the state, then onClose()
AuthClose ==
  /\ authOpen
  /\ authError' = NULL
  /\ message' = NULL
  /\ email' = ""
  /\ password' = ""
  /\ fullName' = <<>>
  /\ mode' = initialMode
  /\ authOpen' = FALSE
  /\ UNCHANGED <<authSubmits, initialMode, hasResetPassword, nonAuthVars>>

\* onChange of the email input
SetEmail(e) ==
  /\ authOpen
  /\ e # email
  /\ email' = e
  /\ UNCHANGED <<authOpen, mode, password, fullName, authError, message,
                 authSubmits, initialMode, hasResetPassword, nonAuthVars>>

\* onChange of the password input (not shown in reset mode)
SetPassword(p) ==
  /\ authOpen
  /\ mode # "reset"
  /\ p # password
  /\ password' = p
  /\ UNCHANGED <<authOpen, mode, email, fullName, authError, message,
                 authSubmits, initialMode, hasResetPassword, nonAuthVars>>

\* onChange of the full name input (shown in signup mode)
SetFullName(n) ==
  /\ authOpen
  /\ mode = "signup"
  /\ n # fullName
  /\ fullName' = n
  /\ UNCHANGED <<authOpen, mode, email, password, authError, message,
                 authSubmits, initialMode, hasResetPassword, nonAuthVars>>

\* setMode(m); setError(null); setMessage(null)
AuthSwitchMode(m) ==
  /\ mode' = m
  /\ authError' = NULL
  /\ message' = NULL
  /\ UNCHANGED <<authOpen, email, password, fullName, authSubmits,
                 initialMode, hasResetPassword, nonAuthVars>>

\* the "Forgot Password?" button of signin mode
ForgotPassword ==
  /\ authOpen
  /\ mode = "signin"
  /\ AuthSwitchMode("reset")

\* the toggle between Sign In and Sign Up
ToggleMode ==
  /\ authOpen
  /\ mode # "reset"
  /\ AuthSwitchMode(IF mode = "signin" THEN "signup" ELSE "signin")

\* the "Back to Sign In" button of reset mode
BackToSignIn ==
  /\ authOpen
  /\ mode = "reset"
  /\ AuthSwitchMode("signin")

\* handleSubmit: up to its await, or to the end of the catch block when it
\* throws before any await
AuthHandleSubmit ==
  /\ authOpen
  /\ Len(authSubmits) < MaxAuthSubmits
  /\ message' = NULL
  /\ IF mode = "signup" /\ Trim(fullName) = <<>>
     THEN /\ AuthCatch([isError |-> TRUE, message |-> "Full name is required"])
          /\ authSubmits' = Append(authSubmits,
                                   AuthRun(mode, "done", <<>>, TRUE))
     ELSE IF mode = "reset" /\ ~hasResetPassword
     THEN /\ AuthCatch([isError |-> TRUE, message |->
                          "Password reset functionality not available."])
          /\ authSubmits' = Append(authSubmits,
                                   AuthRun(mode, "done", <<>>, TRUE))
     ELSE /\ authError' = NULL
          /\ authSubmits' = Append(authSubmits,
               AuthRun(mode, "call",
                       <<CASE mode = "signin" -> "signIn"
                           [] mode = "signup" -> "signUp"
                           [] OTHER -> "resetPassword">>, FALSE))
          /\ UNCHANGED mode
  /\ UNCHANGED <<authOpen, email, password, fullName, initialMode,
                 hasResetPassword, nonAuthVars>>

\* a submit that calls onClose() after every successful operation
AuthResponseClosesOnSuccess(r, outcome) ==
  /\ authSubmits[r].pc = "call"
  /\ IF outcome.thrown # None
     THEN /\ AuthCatch(outcome.thrown[1])
          /\ authSubmits' = [authSubmits EXCEPT
                               ![r].pc = "done", ![r].failed = TRUE,
                               ![r].answers = Append(@, "error")]
          /\ UNCHANGED <<authOpen, message>>
     ELSE /\ authOpen' = FALSE
          /\ message' = IF authSubmits[r].mode = "signin" THEN message
                        ELSE AuthSuccessMessage(authSubmits[r].mode)
          /\ authSubmits' = [authSubmits EXCEPT
                               ![r].pc = "done", ![r].closed = TRUE,
                               ![r].answers = Append(@, "ok")]
          /\ UNCHANGED <<mode, authError>>
  /\ UNCHANGED <<email, password, fullName, initialMode, hasResetPassword,
                 nonAuthVars>>

\* the awaited store operation of submit r returns or throws
AuthResponse(r, outcome) ==
  /\ authSubmits[r].pc = "call"
  /\ IF outcome.thrown # None
     THEN /\ AuthCatch(outcome.thrown[1])
          /\ authSubmits' = [authSubmits EXCEPT
                               ![r].pc = "done", ![r].failed = TRUE,
                               ![r].answers = Append(@, "error")]
          /\ UNCHANGED <<authOpen, message>>
     ELSE IF authSubmits[r].mode = "signin"
     THEN /\ authOpen' = FALSE
          /\ authSubmits' = [authSubmits EXCEPT
                               ![r].pc = "done", ![r].closed = TRUE,
                               ![r].answers = Append(@, "ok")]
          /\ UNCHANGED <<mode, authError, message>>
     ELSE /\ message' = AuthSuccessMessage(authSubmits[r].mode)
          /\ authSubmits' = [authSubmits EXCEPT
                               ![r].pc = "done",
                               ![r].answers = Append(@, "ok")]
          /\ UNCHANGED <<authOpen, mode, authError>>
  /\ UNCHANGED <<email, password, fullName, initialMode, hasResetPassword,
                 nonAuthVars>>

\* what is typed into the full name field
NameInputs == {<<>>, <<" ">>, <<"A">>}

AuthInit ==
  /\ authOpen = FALSE
  /\ initialMode \in {"signin", "signup"}
  /\ mode = initialMode
  /\ email = ""
  /\ password = ""
  /\ fullName = <<>>
  /\ authError = NULL
  /\ message = NULL
  /\ authSubmits = <<>>
  /\ hasResetPassword \in BOOLEAN

AuthNext ==
  \/ AuthOpen
  \/ AuthClose
  \/ \E e \in {"", "a@x"} : SetEmail(e)
  \/ \E p \in {"", "pw"} : SetPassword(p)
  \/ \E n \in NameInputs : SetFullName(n)
  \/ ForgotPassword
  \/ ToggleMode
  \/ BackToSignIn
  \/ AuthHandleSubmit
  \/ \E r \in 1..Len(authSubmits) :
       \E outcome \in AuthOutcomes : AuthResponse(r, outcome)

\* the modal before it is used
AuthIdle ==
  /\ authOpen = FALSE
  /\ initialMode = "signin"
  /\ mode = "signin"
  /\ email = ""
  /\ password = ""
  /\ fullName = <<>>
  /\ authError = NULL
  /\ message = NULL
  /\ authSubmits = <<>>
  /\ hasResetPassword = FALSE

-----------------------------------------------------------------------------
(* ClubDetailPage *)

\* the events table rows of each club, and the day the page is opened
DetailEventsTable ==
  <<[id |-> 1, club_id |-> "c1", date |-> 3],
    [id |-> 2, club_id |-> "c1", date |-> 1],
    [id |-> 3, club_id |-> "c2", date |-> 4]>>

DetailToday == 2

\* from('clubs').select('*').eq('id', clubId).single(): the row when exactly
\* one matches, an error otherwise
ClubSingleResponses(table, id) ==
  LET Matches(row) == row.id = id
      rows == SelectSeq(table, Matches)
  IN  (IF Len(rows) = 1 THEN {[data |-> Some(rows[1]), error |-> None]}
       ELSE {})
        \cup {[data |-> None, error |-> Some(e)] : e \in BackendErrors}

\* from('events').select('*').eq('club_id', clubId).gte('date', today)
\*   .order('date', { ascending: true })
ClubEventsQuery(id) ==
  LET Matches(row) == row.club_id = id /\ row.date >= DetailToday
  IN  OrderBy(SelectSeq(DetailEventsTable, Matches), "date", TRUE)

\* the rows the backend holds for the events query of each club
ClubEventsRows == [id \in ClubIds |-> ClubEventsQuery(id)]

\* { count } of the event_registrations count query: a number, or null
\* when the query fails
RegistrationCounts == {Some(2), Some(0), None}

\* { ...event, registered_count: count || 0 }
WithCount(event, count) ==
  [id |-> event.id, club_id |-> event.club_id, date |-> event.date,
   registered_count |-> IF count = None THEN 0 ELSE count[1]]

\* from('club_memberships').select('club_id').eq('user_id', user.id)
\*   .eq('club_id', clubId).maybeSingle(): Some(row), or None for null
MembershipMaybeSingle(table, uid, id) ==
  LET Matches(row) == row.user_id = uid /\ row.club_id = id
      rows == SelectSeq(table, Matches)
  IN  IF Len(rows) = 0 THEN None ELSE Some([club_id |-> rows[1].club_id])

\* err instanceof Error ? err.message : 'Failed to load club details.'
DetailErrorMessage(err) ==
  IF err.isError THEN err.message ELSE "Failed to load club details."

\* one invocation of fetchClubData or of a handler, as it starts
DetailRun(kind, c, uid, pc, calls) ==
  [kind |-> kind, clubId |-> c, uid |-> uid, pc |-> pc, calls |-> calls,
   answers |-> <<>>, failed |-> FALSE]

\* fetchClubData(): up to its first await, or to its return when there is
\* no club id
fetchClubData(uid) ==
  IF ~Truthy(detailClubId)
  THEN /\ detailError' = "Club ID not found."
       /\ detailLoading' = FALSE
       /\ detailRuns' = Append(detailRuns,
            DetailRun("fetch", detailClubId, uid, "done", <<>>))
  ELSE /\ detailLoading' = TRUE
       /\ detailError' = NULL
       /\ detailRuns' = Append(detailRuns,
            DetailRun("fetch", detailClubId, uid, "club", <<"club">>))

\* useEffect(() => { fetchClubData(); }, [clubId, user]) on mount
DetailMount ==
  /\ page = "detail"
  /\ ~detailMounted
  /\ Len(detailRuns) < MaxDetailRuns
  /\ detailMounted' = TRUE
  /\ fetchClubData(detailUser)
  /\ UNCHANGED <<detailClubId, detailUser, club, clubEvents, isMember,
                 actionLoading, isEditModalOpen, location, detailClubsTable,
                 detailMembershipsTable, nonDetailVars>>

\* user changes (sign-in or sign-out): the effect runs fetchClubData again
DetailUserChange(u) ==
  /\ detailMounted
  /\ location = "detail"
  /\ Len(detailRuns) < MaxDetailRuns
  /\ Truthy(u) # Truthy(detailUser)
  /\ detailUser' = u
  /\ fetchClubData(u)
  /\ UNCHANGED <<detailMounted, detailClubId, club, clubEvents, isMember,
                 actionLoading, isEditModalOpen, location, detailClubsTable,
                 detailMembershipsTable, nonDetailVars>>

\* openEditModal: if (club) setIsEditModalOpen(true)
openEditModal ==
  /\ detailMounted
  /\ location = "detail"
  /\ ~isEditModalOpen
  /\ club # None
  /\ isEditModalOpen' = TRUE
  /\ UNCHANGED <<detailMounted, detailClubId, detailUser, club, clubEvents,
                 isMember, detailLoading, detailError, actionLoading,
                 location, detailRuns, detailClubsTable,
                 detailMembershipsTable, nonDetailVars>>

\* onClose of EditClubModal: setIsEditModalOpen(false); fetchClubData()
DetailModalClose ==
  /\ detailMounted
  /\ location = "detail"
  /\ isEditModalOpen
  /\ Len(detailRuns) < MaxDetailRuns
  /\ isEditModalOpen' = FALSE
  /\ fetchClubData(detailUser)
  /\ UNCHANGED <<detailMounted, detailClubId, detailUser, club, clubEvents,
                 isMember, actionLoading, location, detailClubsTable,
                 detailMembershipsTable, nonDetailVars>>

\* a catch block that leaves the club and its events in place
DetailFetchCatchKeepsClub(r, err) ==
  /\ detailError' = DetailErrorMessage(err)
  /\ detailLoading' = FALSE
  /\ detailRuns' = [detailRuns EXCEPT ![r].pc = "done", ![r].failed = TRUE,
                                      ![r].answers = Append(@, "error")]
  /\ UNCHANGED <<club, clubEvents, isMember>>

\* catch (err) { setError(...); setClub(null); setEvents([]) }
\* finally { setLoading(false) }
DetailFetchCatch(r, err) ==
  /\ detailError' = DetailErrorMessage(err)
  /\ club' = None
  /\ clubEvents' = <<>>
  /\ detailLoading' = FALSE
  /\ detailRuns' = [detailRuns EXCEPT ![r].pc = "done", ![r].failed = TRUE,
                                      ![r].answers = Append(@, "error")]
  /\ UNCHANGED isMember

\* the club read of invocation r is answered
DetailClubResponse(r, resp) ==
  /\ detailRuns[r].pc = "club"
  /\ IF resp.error # None
     THEN DetailFetchCatch(r, resp.error[1])
     ELSE /\ club' = Some(resp.data[1])
          /\ detailRuns' = [detailRuns EXCEPT
                              ![r].pc = "events",
                              ![r].calls = Append(@, "events"),
                              ![r].answers = Append(@, "ok")]
          /\ UNCHANGED <<clubEvents, isMember, detailLoading, detailError>>
  /\ UNCHANGED <<detailMounted, detailClubId, detailUser, actionLoading,
                 isEditModalOpen, location, detailClubsTable,
                 detailMembershipsTable, nonDetailVars>>

\* the events read of invocation r is answered; on success the registration
\* counts are read with Promise.all
DetailEventsResponse(r, resp) ==
  /\ detailRuns[r].pc = "events"
  /\ IF resp.error # None
     THEN DetailFetchCatch(r, resp.error[1])
     ELSE /\ detailRuns' = [detailRuns EXCEPT
                              ![r].pc = "counts",
                              ![r].calls = Append(@, "counts"),
                              ![r].answers = Append(@, "ok")]
          /\ UNCHANGED <<club, clubEvents, isMember, detailLoading,
                         detailError>>
  /\ UNCHANGED <<detailMounted, detailClubId, detailUser, actionLoading,
                 isEditModalOpen, location, detailClubsTable,
                 detailMembershipsTable, nonDetailVars>>

\* the registration counts of invocation r are answered: setEvents, then the
\* membership check when a user is signed in, setIsMember(false) otherwise
DetailCountsResponse(r, count) ==
  /\ detailRuns[r].pc = "counts"
  /\ clubEvents' =
       LET rows == ClubEventsRows[detailRuns[r].clubId]
       IN  [i \in 1..Len(rows) |-> WithCount(rows[i], count)]
  /\ IF Truthy(detailRuns[r].uid)
     THEN /\ detailRuns' = [detailRuns EXCEPT
                              ![r].pc = "membership",
                              ![r].calls = Append(@, "membership"),
                              ![r].answers = Append(@, "ok")]
          /\ UNCHANGED <<isMember, detailLoading>>
     ELSE /\ isMember' = FALSE
          /\ detailLoading' = FALSE
          /\ detailRuns' = [detailRuns EXCEPT
                              ![r].pc = "done",
                              ![r].answers = Append(@, "ok")]
  /\ UNCHANGED <<detailMounted, detailClubId, detailUser, club, detailError,
                 actionLoading, isEditModalOpen, location, detailClubsTable,
                 detailMembershipsTable, nonDetailVars>>

\* the membership check of invocation r is answered
DetailMembershipResponse(r, resp) ==
  /\ detailRuns[r].pc = "membership"
  /\ IF resp.error # None
     THEN DetailFetchCatch(r, resp.error[1])
     ELSE /\ isMember' = (resp.data[1] # None)
          /\ detailLoading' = FALSE
          /\ detailRuns' = [detailRuns EXCEPT
                              ![r].pc = "done",
                              ![r].answers = Append(@, "ok")]
          /\ UNCHANGED <<club, clubEvents, detailError>>
  /\ UNCHANGED <<detailMounted, detailClubId, detailUser, actionLoading,
                 isEditModalOpen, location, detailClubsTable,
                 detailMembershipsTable, nonDetailVars>>

\* a handler of the detail page, up to its await: `if (!user || !club)
\* return` (and a declined prompt) or setActionLoading(true) and the call
DetailHandler(kind, call, declined) ==
  /\ detailMounted
  /\ location = "detail"
  /\ ~actionLoading
  /\ Len(detailRuns) < MaxDetailRuns
  /\ IF ~Truthy(detailUser) \/ club = None \/ declined
     THEN /\ detailRuns' = Append(detailRuns,
               DetailRun(kind, NULL, detailUser, "done", <<>>))
          /\ UNCHANGED actionLoading
     ELSE /\ detailRuns' = Append(detailRuns,
               DetailRun(kind, club[1].id, detailUser, call, <<call>>))
          /\ actionLoading' = TRUE
  /\ UNCHANGED <<detailMounted, detailClubId, detailUser, club, clubEvents,
                 isMember, detailLoading, detailError, isEditModalOpen,
                 location, detailClubsTable, detailMembershipsTable,
                 nonDetailVars>>

DetailHandleJoin == DetailHandler("join", "insert", FALSE)

DetailHandleLeave == DetailHandler("leave", "remove", FALSE)

\* confirmed is the answer of window.confirm
DetailHandleDeleteClub(confirmed) ==
  DetailHandler("delete", "delete", ~confirmed)

\* the handler's catch { alert } and finally { setActionLoading(false) }
DetailHandlerCatch(r) ==
  /\ actionLoading' = FALSE
  /\ detailRuns' = [detailRuns EXCEPT ![r].pc = "done", ![r].failed = TRUE,
                                      ![r].answers = Append(@, "error")]

\* the handler's try block ends and finally { setActionLoading(false) }
DetailHandlerDone(r) ==
  /\ actionLoading' = FALSE
  /\ detailRuns' = [detailRuns EXCEPT ![r].pc = "done",
                                      ![r].answers = Append(@, "ok")]

\* the insert of join r is answered
DetailJoinResponse(r, resp) ==
  /\ detailRuns[r].pc = "insert"
  /\ IF resp.error # None
     THEN /\ DetailHandlerCatch(r)
          /\ UNCHANGED <<isMember, detailMembershipsTable>>
     ELSE /\ DetailHandlerDone(r)
          /\ isMember' = TRUE
          /\ detailMembershipsTable' =
               MembershipsInsert(detailMembershipsTable,
                                 detailRuns[r].clubId, detailRuns[r].uid)
  /\ UNCHANGED <<detailMounted, detailClubId, detailUser, club, clubEvents,
                 detailLoading, detailError, isEditModalOpen, location,
                 detailClubsTable, nonDetailVars>>

\* the delete of leave r is answered
DetailLeaveResponse(r, resp) ==
  /\ detailRuns[r].pc = "remove"
  /\ IF resp.error # None
     THEN /\ DetailHandlerCatch(r)
          /\ UNCHANGED <<isMember, detailMembershipsTable>>
     ELSE /\ DetailHandlerDone(r)
          /\ isMember' = FALSE
          /\ detailMembershipsTable' =
               MembershipsDelete(detailMembershipsTable,
                                 detailRuns[r].clubId, detailRuns[r].uid)
  /\ UNCHANGED <<detailMounted, detailClubId, detailUser, club, clubEvents,
                 detailLoading, detailError, isEditModalOpen, location,
                 detailClubsTable, nonDetailVars>>

\* a club deletion that navigates to the clubs list whatever the answer
DetailDeleteResponseAlwaysNavigates(r, resp) ==
  /\ detailRuns[r].pc = "delete"
  /\ IF resp.error # None
     THEN /\ DetailHandlerCatch(r)
          /\ UNCHANGED detailClubsTable
     ELSE /\ DetailHandlerDone(r)
          /\ detailClubsTable' =
               ClubsDelete(detailClubsTable, detailRuns[r].clubId)
  /\ location' = "/clubs"
  /\ UNCHANGED <<detailMounted, detailClubId, detailUser, club, clubEvents,
                 isMember, detailLoading, detailError, isEditModalOpen,
                 detailMembershipsTable, nonDetailVars>>

\* the delete of club deletion r is answered; on success navigate('/clubs')
DetailDeleteResponse(r, resp) ==
  /\ detailRuns[r].pc = "delete"
  /\ IF resp.error # None
     THEN /\ DetailHandlerCatch(r)
          /\ UNCHANGED <<detailClubsTable, location>>
     ELSE /\ DetailHandlerDone(r)
          /\ detailClubsTable' =
               ClubsDelete(detailClubsTable, detailRuns[r].clubId)
          /\ location' = "/clubs"
  /\ UNCHANGED <<detailMounted, detailClubId, detailUser, club, clubEvents,
                 isMember, detailLoading, detailError, isEditModalOpen,
                 detailMembershipsTable, nonDetailVars>>

\* the users of the detail page: nobody, or the creator of club c1
DetailUsers == {NULL, "u1"}

DetailInit ==
  /\ detailMounted = FALSE
  /\ detailClubId \in {NULL, "c1"}
  /\ detailUser \in DetailUsers
  /\ club = None
  /\ clubEvents = <<>>
  /\ isMember = FALSE
  /\ detailLoading = TRUE
  /\ detailError = NULL
  /\ actionLoading = FALSE
  /\ isEditModalOpen = FALSE
  /\ location = "detail"
  /\ detailRuns = <<>>
  /\ detailClubsTable = ClubsTableInit
  /\ detailMembershipsTable = MembershipsTableInit

\* the invocations of the detail page that wait at pc
DetailAt(pc) == {r \in 1..Len(detailRuns) : detailRuns[r].pc = pc}

DetailNext ==
  \/ DetailMount
  \/ \E u \in DetailUsers : DetailUserChange(u)
  \/ openEditModal
  \/ DetailModalClose
  \/ \E r \in DetailAt("club") :
       \E resp \in ClubSingleResponses(detailClubsTable,
                                       detailRuns[r].clubId) :
         DetailClubResponse(r, resp)
  \/ \E r \in DetailAt("events") :
       \E resp \in Responses(ClubEventsRows[detailRuns[r].clubId]) :
         DetailEventsResponse(r, resp)
  \/ \E r \in DetailAt("counts") :
       \E count \in RegistrationCounts : DetailCountsResponse(r, count)
  \/ \E r \in DetailAt("membership") :
       \E resp \in Responses(MembershipMaybeSingle(detailMembershipsTable,
                               detailRuns[r].uid, detailRuns[r].clubId)) :
         DetailMembershipResponse(r, resp)
  \/ DetailHandleJoin
  \/ DetailHandleLeave
  \/ \E confirmed \in BOOLEAN : DetailHandleDeleteClub(confirmed)
  \/ \E r \in DetailAt("insert") :
       \E resp \in Responses(<<>>) : DetailJoinResponse(r, resp)
  \/ \E r \in DetailAt("remove") :
       \E resp \in Responses(<<>>) : DetailLeaveResponse(r, resp)
  \/ \E r \in DetailAt("delete") :
       \E resp \in Responses(<<>>) : DetailDeleteResponse(r, resp)

\* the detail page while another component is exercised
DetailIdle ==
  /\ detailMounted = FALSE
  /\ detailClubId = NULL
  /\ detailUser = NULL
  /\ club = None
  /\ clubEvents = <<>>
  /\ isMember = FALSE
  /\ detailLoading = TRUE
  /\ detailError = NULL
  /\ actionLoading = FALSE
  /\ isEditModalOpen = FALSE
  /\ location = "detail"
  /\ detailRuns = <<>>
  /\ detailClubsTable = ClubsTableInit
  /\ detailMembershipsTable = MembershipsTableInit

-----------------------------------------------------------------------------
(* Specifications *)

\* the components that are not under exercise
OthersIdle(p) ==
  /\ page = p
  /\ p # "search" => SearchIdle
  /\ p # "home" => AppIdle
  /\ p # "clubs" => ClubsIdle
  /\ p # "edit" => EditIdle
  /\ p # "auth" => AuthIdle
  /\ p # "detail" => DetailIdle

Init == SearchInit /\ OthersIdle("search")

Next == SearchNext

\* the search page
Spec == Init /\ [][Next]_vars

FeedInit == AppInit /\ OthersIdle("home")

FeedNext == AppNext

\* the home page
FeedSpec == FeedInit /\ [][FeedNext]_vars

ClubsPageInit == ClubsInit /\ OthersIdle("clubs")

ClubsPageNext == ClubsNext

\* the clubs page
ClubsSpec == ClubsPageInit /\ [][ClubsPageNext]_vars

EditModalInit == EditInit /\ OthersIdle("edit")

EditModalNext == EditNext

\* the edit-announcement modal
EditSpec == EditModalInit /\ [][EditModalNext]_vars

AuthModalInit == AuthInit /\ OthersIdle("auth")

AuthModalNext == AuthNext

\* the sign-in modal
AuthSpec == AuthModalInit /\ [][AuthModalNext]_vars

DetailPageInit == DetailInit /\ OthersIdle("detail")

DetailPageNext == DetailNext

\* the club detail page
DetailSpec == DetailPageInit /\ [][DetailPageNext]_vars

ClubPagesInit == ClubsPageInit \/ DetailPageInit

ClubPagesNext == ClubsPageNext \/ DetailPageNext

\* the clubs directory and the club detail page
ClubPagesSpec == ClubPagesInit /\ [][ClubPagesNext]_vars

\* the home page over the largest events table, with nobody or the user
\* with interests signed in
SiteFeedInit ==
  /\ FeedInit
  /\ eventsTable = FeedTable(6) /\ today = 2
  /\ user \in {NULL, "u1"}

SiteInit == Init \/ SiteFeedInit \/ ClubsPageInit \/ EditModalInit

\* the steps of the components, up to the numbers of invocations explored
SiteNext ==
  \/ SearchNext /\ Len(searches') <= MaxSiteSearches
  \/ AppNext /\ Len(feeds') <= MaxSiteFeedRuns
  \/ ClubsNext /\ Len(clubRuns') <= MaxSiteClubRuns
  \/ EditNext /\ Len(editSubmits') <= MaxSiteSubmits

\* the pages and the modal that call the backend, one of them per behaviour
SiteSpec == SiteInit /\ [][SiteNext]_vars

LiveInit == Init \/ SiteFeedInit

LiveNext ==
  \/ SearchNext /\ Len(searches') <= MaxSiteSearches
  \/ AppNext /\ Len(feeds') <= MaxSiteFeedRuns

\* the backend answers every query that is awaited
BackendAnswers ==
  /\ WF_vars(\E s \in 1..Len(searches) :
               \E resp \in Responses(SearchRows[searches[s].q].events) :
                 EventsResponse(s, resp))
  /\ WF_vars(\E s \in 1..Len(searches) :
               \E resp \in Responses(SearchRows[searches[s].q].clubs) :
                 ClubsResponse(s, resp))
  /\ WF_vars(\E s \in 1..Len(searches) :
               \E resp \in Responses(SearchRows[searches[s].q].announcements) :
                 AnnouncementsResponse(s, resp))
  /\ WF_vars(\E f \in 1..Len(feeds) :
               \E resp \in ProfileResponses(feeds[f].uid) :
                 ProfileResponse(f, resp))
  /\ WF_vars(\E f \in 1..Len(feeds) :
               \E resp \in Responses(InterestRows[[table |-> eventsTable,
                                                     day |-> today]]
                                         [OrEmpty(feeds[f].userInterests)]) :
                 InterestResponse(f, resp))
  /\ WF_vars(\E f \in 1..Len(feeds) :
               \E resp \in Responses(FallbackRows[[table |-> eventsTable,
                                             day |-> today]]) :
                 FallbackResponse(f, resp))

\* the search page and the home page with a backend that always answers
LiveSpec == LiveInit /\ [][LiveNext]_vars /\ BackendAnswers

----------------------------------------------------------------------------
(* Claims about the search page (specification Spec) *)

AllSearchesDone == \A s \in 1..Len(searches) : searches[s].pc = "done"

CategoryCalls == <<"events", "clubs", "announcements">>

\* what invocation s puts in a list: the rows of its query once answered ok
Produced(s, k, rows) ==
  IF Len(searches[s].answers) >= k /\ searches[s].answers[k] = "ok"
  THEN rows ELSE <<>>

\* query of the invocation a list was last written by (0: never written)
OriginQuery(s) == IF s = 0 THEN NULL ELSE searches[s].q

\* C1: once every search has completed, the three lists, the error and the
\* loading flag are those produced by the most recently issued (non-empty)
\* query, whatever the order of the backend responses.
C1_LatestQueryWins ==
  (mounted /\ AllSearchesDone /\ Truthy(query)) =>
    LET n == Len(searches)
    IN  /\ searches[n].q = query
        /\ events = Produced(n, 1, SearchEventsQuery(query))
        /\ clubs = Produced(n, 2, SearchClubsQuery(query))
        /\ announcements = Produced(n, 3, SearchAnnouncementsQuery(query))
        /\ error = searches[n].message
        /\ loading = FALSE

\* C2: the three category lists never hold rows returned for two different
\* query strings.
C2_ListsFromOneQuery ==
  /\ (events # <<>> /\ clubs # <<>>) =>
        OriginQuery(eventsFrom) = OriginQuery(clubsFrom)
  /\ (events # <<>> /\ announcements # <<>>) =>
        OriginQuery(eventsFrom) = OriginQuery(announcementsFrom)
  /\ (clubs # <<>> /\ announcements # <<>>) =>
        OriginQuery(clubsFrom) = OriginQuery(announcementsFrom)

\* this step starts a search with an absent or empty query
EmptySearchStarts ==
  /\ Len(searches') = Len(searches) + 1
  /\ ~Truthy(searches'[Len(searches')].q)

\* C3: a search with an absent or empty query issues no backend call and
\* leaves the page with three empty lists and loading false, whatever
\* searches preceded it.
C3_EmptyQueryEmptyResult ==
  [][EmptySearchStarts =>
       /\ searches'[Len(searches')].calls = <<>>
       /\ events' = <<>>
       /\ clubs' = <<>>
       /\ announcements' = <<>>
       /\ loading' = FALSE]_vars

\* this step is the failure of a category query of invocation s
SearchFails(s) == ~searches[s].failed /\ searches'[s].failed

\* C4 as stated: when a category query of a search fails, the search ends with
\* error non-null and loading false, and no list holds rows returned by that
\* search.
C4_FailureLeavesNoRows ==
  [][\A s \in 1..Len(searches) :
       SearchFails(s) =>
         /\ error' # NULL
         /\ loading' = FALSE
         /\ (eventsFrom' = s => events' = <<>>)
         /\ (clubsFrom' = s => clubs' = <<>>)
         /\ (announcementsFrom' = s => announcements' = <<>>)]_vars

\* C4 amended: when the k-th category query of a search fails, the search
\* ends with error non-null and loading false and nothing on screen; the three
\* lists are left as they were, so rows of the categories before the k-th may
\* stay held, and the k-th and later lists hold no rows of that search.
C4_FailureKeepsEarlierRows ==
  [][\A s \in 1..Len(searches) :
       SearchFails(s) =>
         LET k == Len(searches'[s].answers)
         IN  /\ error' # NULL
             /\ loading' = FALSE
             /\ ~ResultsShown'
             /\ events' = events
             /\ clubs' = clubs
             /\ announcements' = announcements
             /\ k <= 1 => ~(eventsFrom' = s /\ events' # <<>>)
             /\ k <= 2 => ~(clubsFrom' = s /\ clubs' # <<>>)
             /\ ~(announcementsFrom' = s /\ announcements' # <<>>)]_vars

\* C4 witness: a search has ended in the error state at its clubs query while
\* events still holds the rows its events query returned
C4_Witness ==
  \E s \in 1..Len(searches) :
    /\ searches[s].failed
    /\ searches[s].answers = <<"ok", "error">>
    /\ eventsFrom = s
    /\ events = SearchRows[searches[s].q].events
    /\ events # <<>>
    /\ clubs = <<>>
    /\ error = searches[s].message
    /\ loading = FALSE

\* list l, last written by invocation `from`, holds rows of a failed search
HoldsRowsOfFailed(l, from) ==
  l # <<>> /\ from # 0 /\ searches[from].failed

\* C5: whenever the category results are on screen (loading false and error
\* null), no list holds rows returned by a search that failed: partial
\* results of a failed search are never shown.
C5_NoPartialResultsShown ==
  ResultsShown =>
    /\ ~HoldsRowsOfFailed(events, eventsFrom)
    /\ ~HoldsRowsOfFailed(clubs, clubsFrom)
    /\ ~HoldsRowsOfFailed(announcements, announcementsFrom)

\* C5 witness: a search failed after its events query had returned rows,
\* the rows are still held and nothing is on screen.
C5_Witness ==
  /\ HoldsRowsOfFailed(events, eventsFrom)
  /\ Len(searches[eventsFrom].calls) >= 2
  /\ ~ResultsShown

C7_ListsCapped ==
  /\ Len(events) <= SearchLimit
  /\ Len(clubs) <= SearchLimit
  /\ Len(announcements) <= SearchLimit

\* C7 witness: a search whose query matches more than 10 rows of each table
\* has finished and each list holds exactly 10
C7_Witness ==
  /\ AllSearchesDone
  /\ Truthy(query)
  /\ Len(SelectSeq(SearchEventsTable,
                   LAMBDA row : EventMatches(row, SearchTerm(query))))
       > SearchLimit
  /\ Len(events) = SearchLimit
  /\ Len(clubs) = SearchLimit
  /\ Len(announcements) = SearchLimit

----------------------------------------------------------------------------
(* Claims about the featured events (specification FeedSpec) *)

\* interest tags invocation f has read (none: the empty list)
InterestsOf(f) == OrEmpty(feeds[f].userInterests)

Upcoming(row) == row.date >= today

\* the events-table row with the id of a listed event
TableRows(id) == {j \in 1..Len(eventsTable) : eventsTable[j].id = id}

Listed(list, id) == \E i \in 1..Len(list) : list[i].id = id

\* list holds rows of the table, each once, in ascending date order
AscendingRows(list) ==
  /\ \A i \in 1..Len(list) :
       \E j \in TableRows(list[i].id) : eventsTable[j].date = list[i].date
  /\ \A i, j \in 1..Len(list) : i < j =>
       (list[i].id # list[j].id /\ list[i].date <= list[j].date)

\* list is the fallback feed: at most 3 upcoming events, ascending by date,
\* and no upcoming event left out is earlier than a listed one
IsFallbackList(list) ==
  /\ Len(list) <= FeaturedLimit
  /\ AscendingRows(list)
  /\ \A i \in 1..Len(list) : list[i].date >= today
  /\ \A j \in 1..Len(eventsTable) :
       (Upcoming(eventsTable[j]) /\ ~Listed(list, eventsTable[j].id)) =>
         /\ Len(list) = FeaturedLimit
         /\ \A i \in 1..Len(list) : list[i].date <= eventsTable[j].date

\* upcoming events whose category is one of the tags
InterestMatches(tags) ==
  {j \in 1..Len(eventsTable) :
     Upcoming(eventsTable[j]) /\ InSeq(eventsTable[j].category, tags)}

FeedSucceeded(f) == feeds[f].pc = "done" /\ ~feeds[f].failed

\* C8: a computation for a signed-in user whose interest tags match no
\* upcoming event yields the fallback list (non-empty when an upcoming event
\* exists), the same list as a computation with no user.
C8_NoMatchFallsBack ==
  \A f \in 1..Len(feeds) :
    (FeedSucceeded(f) /\ Truthy(feeds[f].uid)
       /\ InterestMatches(InterestsOf(f)) = {}) =>
      /\ IsFallbackList(feeds[f].result[1])
      /\ (\E j \in 1..Len(eventsTable) : Upcoming(eventsTable[j])) =>
           feeds[f].result[1] # <<>>
      /\ featuredFrom = f => featuredEvents = feeds[f].result[1]
      /\ \A g \in 1..Len(feeds) :
           (FeedSucceeded(g) /\ ~Truthy(feeds[g].uid)) =>
             feeds[g].result = feeds[f].result

\* C8 witness: interests = [music], the only upcoming events are sports
\* events, and both a signed-in and a signed-out computation have finished
C8_Witness ==
  \E f, g \in 1..Len(feeds) :
    /\ FeedSucceeded(f) /\ FeedSucceeded(g)
    /\ Truthy(feeds[f].uid) /\ ~Truthy(feeds[g].uid)
    /\ InterestsOf(f) = <<"music">>
    /\ InterestMatches(InterestsOf(f)) = {}
    /\ \E j \in 1..Len(eventsTable) :
         Upcoming(eventsTable[j]) /\ eventsTable[j].category = "sports"
    /\ feeds[f].result[1] # <<>>

\* C9: when the interest tags read match at least one upcoming event, the
\* fallback query is never issued and the list holds only upcoming events
\* whose category is one of the tags, ascending by date, not topped up.
C9_OnlyInterestMatches ==
  \A f \in 1..Len(feeds) :
    InterestMatches(InterestsOf(f)) # {} =>
      /\ ~InSeq("fallback", feeds[f].calls)
      /\ FeedSucceeded(f) =>
           LET list == feeds[f].result[1]
           IN  /\ AscendingRows(list)
               /\ \A i \in 1..Len(list) :
                    TableRows(list[i].id) \subseteq
                      InterestMatches(InterestsOf(f))
               /\ Len(list) <= FeaturedLimit
               /\ Len(list) >= 1
               /\ featuredFrom = f => featuredEvents = list

\* C9 witness: one upcoming event matches, three or more are upcoming, and
\* the finished computation lists exactly the matching one
C9_Witness ==
  \E f \in 1..Len(feeds) :
    /\ FeedSucceeded(f)
    /\ Cardinality(InterestMatches(InterestsOf(f))) = 1
    /\ Cardinality({j \in 1..Len(eventsTable) : Upcoming(eventsTable[j])})
         >= FeaturedLimit
    /\ Len(feeds[f].result[1]) = 1

\* C10: with no user the computation yields the fallback list: at most 3
\* events, all dated today or later, ascending, the earliest in the table.
C10_NoUserFallback ==
  \A f \in 1..Len(feeds) :
    (FeedSucceeded(f) /\ ~Truthy(feeds[f].uid)) =>
      /\ feeds[f].calls = <<"fallback">>
      /\ IsFallbackList(feeds[f].result[1])
      /\ featuredFrom = f => featuredEvents = feeds[f].result[1]

\* C10 witness: more than 3 events are upcoming, some event is past, and a
\* computation with no user has listed 3
C10_Witness ==
  \E f \in 1..Len(feeds) :
    /\ FeedSucceeded(f)
    /\ ~Truthy(feeds[f].uid)
    /\ Cardinality({j \in 1..Len(eventsTable) : Upcoming(eventsTable[j])})
         > FeaturedLimit
    /\ \E j \in 1..Len(eventsTable) : ~Upcoming(eventsTable[j])
    /\ Len(feeds[f].result[1]) = FeaturedLimit

-----------------------------------------------------------------------------
\* the query of invocation f that was answered with an error in this step
FeedErrorAnswered(f) ==
  /\ f <= Len(feeds)
  /\ Len(feeds'[f].answers) = Len(feeds[f].answers) + 1
  /\ feeds'[f].answers[Len(feeds'[f].answers)] = "error"

\* the step aborts invocation f: empty list, loading over, invocation ended
FeedAborted(f) ==
  /\ featuredEvents' = <<>>
  /\ loadingFeaturedEvents' = FALSE
  /\ feeds'[f].pc = "done"
  /\ feeds'[f].failed
  /\ feeds'[f].calls = feeds[f].calls

\* C11 as claimed: whichever query of a featured-events computation is
\* answered with an error (profile read, interest-filtered query, fallback
\* query), that step aborts the computation: the featured list is empty,
\* loading is over and no further query is issued.
C11_AnyErrorAborts ==
  [][\A f \in 1..MaxFeedRuns : FeedErrorAnswered(f) => FeedAborted(f)]_vars

\* C11 amended: an error of the interest-filtered or of the fallback query
\* aborts the computation (empty list, loading over); an error of the
\* profile read does not: the list and the loading flag are left alone and
\* the fallback query is issued as for a user with no interests.
C11_EventQueryErrorAborts ==
  [][\A f \in 1..MaxFeedRuns :
       FeedErrorAnswered(f) =>
         IF feeds[f].pc = "profile"
         THEN /\ feeds'[f].pc = "fallback"
              /\ feeds'[f].calls = <<"profile", "fallback">>
              /\ feeds'[f].userInterests = None
              /\ ~feeds'[f].failed
              /\ UNCHANGED <<featuredEvents, loadingFeaturedEvents>>
         ELSE FeedAborted(f)]_vars

\* C11 witness: one computation whose profile read failed has shown the
\* fallback list, and another was aborted by a failed events query
C11_Witness ==
  /\ \E f \in 1..Len(feeds) :
       /\ feeds[f].answers = <<"error", "ok">>
       /\ feeds[f].result # None /\ Len(feeds[f].result[1]) > 0
  /\ \E f \in 1..Len(feeds) :
       /\ feeds[f].failed
       /\ feeds[f].answers[Len(feeds[f].answers)] = "error"
       /\ featuredFrom = f /\ featuredEvents = <<>>
       /\ ~loadingFeaturedEvents

\* C15: the profile is read exactly by the computations that have a user
\* id, and first; the interest-filtered query is issued only after a
\* profile read that gave a non-empty tag list; with no user the fallback
\* query is the only query, and with null or empty interests the fallback
\* query directly follows the profile read.
C15_QueriesGuarded ==
  \A f \in 1..Len(feeds) :
    LET c == feeds[f].calls
        tags == feeds[f].userInterests
        read == Len(feeds[f].answers) >= 1
    IN  /\ InSeq("profile", c) <=> Truthy(feeds[f].uid)
        /\ InSeq("profile", c) => c[1] = "profile"
        /\ ~Truthy(feeds[f].uid) => c = <<"fallback">>
        /\ InSeq("interest", c) =>
             /\ Truthy(feeds[f].uid) /\ read
             /\ tags # None /\ Len(tags[1]) > 0
             /\ c[2] = "interest"
        /\ (Truthy(feeds[f].uid) /\ read) =>
             IF tags # None /\ Len(tags[1]) > 0
             THEN c[2] = "interest"
             ELSE c = <<"profile", "fallback">>

\* C15 witness: a computation with no user has ended after the fallback
\* query alone, and one whose profile read gave an empty tag list has
\* ended after the profile read and the fallback query
C15_Witness ==
  /\ \E f \in 1..Len(feeds) :
       /\ ~Truthy(feeds[f].uid)
       /\ feeds[f].calls = <<"fallback">> /\ feeds[f].pc = "done"
  /\ \E f \in 1..Len(feeds) :
       /\ feeds[f].answers = <<"ok", "ok">>
       /\ feeds[f].userInterests = Some(<<>>)
       /\ feeds[f].calls = <<"profile", "fallback">>

-----------------------------------------------------------------------------
SearchIssues(s) ==
  /\ s <= Len(searches)
  /\ Len(searches'[s].calls) > Len(searches[s].calls)

-----------------------------------------------------------------------------
(* Claims about the clubs page (specification ClubsSpec) *)

\* invocation r of the clubs page gets the answer `answer` in this step
\* while it awaits `call`
ClubRunAnswered(r, call, answer) ==
  /\ r <= Len(clubRuns)
  /\ clubRuns[r].pc = call
  /\ Len(clubRuns'[r].answers) = Len(clubRuns[r].answers) + 1
  /\ clubRuns'[r].answers[Len(clubRuns'[r].answers)] = answer

\* a handler of kind `kind` is invoked in this step
HandlerInvoked(kind) ==
  /\ Len(clubRuns') = Len(clubRuns) + 1
  /\ clubRuns'[Len(clubRuns')].kind = kind

\* a fetchData ends with success in this step
SomeFetchSucceeds ==
  \E r \in 1..Len(clubRuns) :
    /\ \/ ClubRunAnswered(r, "clubs", "ok")
       \/ ClubRunAnswered(r, "memberships", "ok")
    /\ clubRuns'[r].pc = "done"

\* C16: handleJoin adds the club id to the membership set exactly in the
\* step in which its insert is answered with success, handleLeave removes
\* it exactly when its delete is answered with success; a failed insert or
\* delete leaves the set as it is; invoking either handler changes nothing
\* in the set, and with no user it issues no backend call and ends at once;
\* apart from a finished fetchData nothing else changes the set.
C16_MembershipAfterConfirm ==
  [][/\ \A r \in 1..MaxClubRuns :
          /\ ClubRunAnswered(r, "insert", "ok") =>
               memberships' = memberships \cup {clubRuns[r].clubId}
          /\ ClubRunAnswered(r, "remove", "ok") =>
               memberships' = memberships \ {clubRuns[r].clubId}
          /\ ClubRunAnswered(r, "insert", "error") =>
               UNCHANGED <<memberships, membershipsTable>>
          /\ ClubRunAnswered(r, "remove", "error") =>
               UNCHANGED <<memberships, membershipsTable>>
     /\ (HandlerInvoked("join") \/ HandlerInvoked("leave")) =>
          /\ UNCHANGED <<memberships, membershipsTable>>
          /\ ~Truthy(clubsUser) =>
               /\ clubRuns'[Len(clubRuns')].calls = <<>>
               /\ clubRuns'[Len(clubRuns')].pc = "done"
     /\ memberships' # memberships =>
          \/ \E r \in 1..Len(clubRuns) : ClubRunAnswered(r, "insert", "ok")
          \/ \E r \in 1..Len(clubRuns) : ClubRunAnswered(r, "remove", "ok")
          \/ SomeFetchSucceeds]_vars

\* C16 witness: the memberships c1 and c2 were loaded, a leave of c1 was
\* confirmed and only c2 is left in the set, and a later join of c1 failed
\* and c1 is still not in the set
C16_Witness ==
  /\ memberships = {"c2"}
  /\ \E r \in 1..Len(clubRuns) :
       /\ clubRuns[r].kind = "leave" /\ clubRuns[r].clubId = "c1"
       /\ clubRuns[r].answers = <<"ok">>
       /\ \E q \in (r + 1)..Len(clubRuns) :
            /\ clubRuns[q].kind = "join" /\ clubRuns[q].clubId = "c1"
            /\ clubRuns[q].answers = <<"error">>

\* the membership set fetchData builds for user uid from the table
MembershipsOf(uid) ==
  IF Truthy(uid)
  THEN {c \in ClubIds :
          \E i \in 1..Len(membershipsTable) :
            /\ membershipsTable[i].user_id = uid
            /\ membershipsTable[i].club_id = c}
  ELSE {}

\* C17: a fetchData whose clubs query or membership query fails leaves the
\* clubs list and the membership set as they were and sets the error
\* message; a fetchData that succeeds sets the clubs list (to the rows its
\* clubs query returned) and the membership set (of its user) in one step
\* and clears the error; loading is false after either; the step between
\* its two queries changes none of them.
C17_FetchOutcome ==
  [][\A r \in 1..MaxClubRuns :
       /\ (\/ ClubRunAnswered(r, "clubs", "error")
           \/ ClubRunAnswered(r, "memberships", "error")) =>
            /\ UNCHANGED <<clubList, memberships>>
            /\ clubsError' \in {"network", "Failed to load data"}
            /\ clubsLoading' = FALSE
            /\ clubRuns'[r].pc = "done"
       /\ (ClubRunAnswered(r, "clubs", "ok") /\ clubRuns'[r].pc # "done") =>
            UNCHANGED <<clubList, memberships, clubsError, clubsLoading>>
       /\ (ClubRunAnswered(r, "clubs", "ok") /\ clubRuns'[r].pc = "done") =>
            /\ clubList' = clubsTable
            /\ memberships' = {}
            /\ ~Truthy(clubRuns[r].uid)
            /\ clubsError' = NULL
            /\ clubsLoading' = FALSE
       /\ ClubRunAnswered(r, "memberships", "ok") =>
            /\ clubList' = clubRuns[r].clubsData[1]
            /\ memberships' = MembershipsOf(clubRuns[r].uid)
            /\ clubsError' = NULL
            /\ clubsLoading' = FALSE
            /\ clubRuns'[r].pc = "done"]_vars

\* C17 witness: after a fetch that loaded clubs and memberships, a later
\* fetch has failed: the lists are still there and the error is set
C17_Witness ==
  /\ Len(clubList) > 0
  /\ memberships # {}
  /\ Truthy(clubsError)
  /\ ~clubsLoading
  /\ \E r \in 1..Len(clubRuns) :
       /\ clubRuns[r].kind = "fetch" /\ clubRuns[r].pc = "done"
       /\ ~clubRuns[r].failed
       /\ \E q \in (r + 1)..Len(clubRuns) :
            clubRuns[q].kind = "fetch" /\ clubRuns[q].failed

-----------------------------------------------------------------------------
(* Claims about the edit-announcement modal (specification EditSpec) *)

\* handleSubmit is invoked in this step
EditSubmitted == Len(editSubmits') = Len(editSubmits) + 1

\* the three guards of handleSubmit pass in the current state
EditGuardsPass ==
  /\ editAnnouncement # None
  /\ Truthy(editUser)
  /\ editUser = editAnnouncement[1].created_by \/ editUser = "u3"
  /\ \E i \in 1..Len(title) : title[i] # " "
  /\ \E i \in 1..Len(content) : content[i] # " "

\* a text without its leading and trailing blanks
Trimmed(s, t) ==
  /\ t # <<>> => t[1] # " " /\ t[Len(t)] # " "
  /\ \E lead, trail \in 0..Len(s) :
       /\ lead + Len(t) + trail = Len(s)
       /\ \A i \in 1..Len(s) :
            IF i <= lead \/ i > lead + Len(t) THEN s[i] = " "
            ELSE s[i] = t[i - lead]

\* submit r is answered in this step
EditAnswered(r, answer) ==
  /\ r <= Len(editSubmits)
  /\ editSubmits[r].pc = "update"
  /\ editSubmits'[r].answers = <<answer>>

\* C18: a submit issues the update exactly when an announcement is
\* selected, the user exists and is its creator or an admin, and title and
\* content are non-blank after trimming. When a guard fails the error
\* message is set, no call is made, loading stays false, onClose is not
\* called and the table is untouched. The update carries the trimmed title
\* and content and, when it succeeds, writes them to the row with the
\* announcement's id and to no other row; nothing else writes the table.
C18_UpdateGuarded ==
  [][/\ EditSubmitted =>
          LET run == editSubmits'[Len(editSubmits')]
          IN  /\ run.calls = IF EditGuardsPass THEN <<"update">> ELSE <<>>
              /\ ~EditGuardsPass =>
                   /\ Truthy(editError')
                   /\ run.pc = "done"
                   /\ ~editLoading /\ ~editLoading'
                   /\ ~run.closed
                   /\ UNCHANGED <<editOpen, announcementsTable>>
              /\ EditGuardsPass =>
                   /\ run.id = editAnnouncement[1].id
                   /\ Trimmed(title, run.title)
                   /\ Trimmed(content, run.content)
                   /\ UNCHANGED announcementsTable
     /\ \A r \in 1..MaxSubmits :
          EditAnswered(r, "ok") =>
            /\ Len(announcementsTable') = Len(announcementsTable)
            /\ \A i \in 1..Len(announcementsTable) :
                 announcementsTable'[i] =
                   IF announcementsTable[i].id = editSubmits[r].id
                   THEN [announcementsTable[i] EXCEPT
                           !.title = editSubmits[r].title,
                           !.content = editSubmits[r].content]
                   ELSE announcementsTable[i]
     /\ announcementsTable' # announcementsTable =>
          \E r \in 1..Len(editSubmits) : EditAnswered(r, "ok")]_vars

\* C18 witness: a submit was refused by a guard, and another, with blanks
\* typed around the title, has written the trimmed title to row a1 alone
C18_Witness ==
  /\ \E r \in 1..Len(editSubmits) :
       editSubmits[r].calls = <<>> /\ editSubmits[r].pc = "done"
  /\ \E r \in 1..Len(editSubmits) : editSubmits[r].answers = <<"ok">>
  /\ announcementsTable[1].title = <<"N">>
  /\ announcementsTable[2] = AnnouncementsTableInit[2]

\* C19: the step in which the update of a submit is answered calls onClose
\* exactly when the answer is a success; on a failure the modal is not
\* closed and error is set to the failure message; loading is false after
\* both; a submit calls onClose in no other step.
C19_CloseOnSuccessOnly ==
  [][\A r \in 1..MaxSubmits :
       /\ EditAnswered(r, "ok") =>
            /\ editSubmits'[r].closed /\ ~editOpen'
            /\ ~editLoading'
            /\ UNCHANGED editError
       /\ EditAnswered(r, "error") =>
            /\ ~editSubmits'[r].closed
            /\ UNCHANGED editOpen
            /\ editError' \in {"network", "Failed to update announcement."}
            /\ ~editLoading'
       /\ (r <= Len(editSubmits') /\ editSubmits'[r].closed) =>
            \/ EditAnswered(r, "ok")
            \/ r <= Len(editSubmits) /\ editSubmits[r].closed]_vars

\* C19 witness: one update has failed and left the modal open with its
\* message, and an earlier one succeeded and closed the modal
C19_Witness ==
  /\ editOpen
  /\ editError \in {"network", "Failed to update announcement."}
  /\ ~editLoading
  /\ \E r \in 1..Len(editSubmits) :
       /\ editSubmits[r].answers = <<"error">> /\ ~editSubmits[r].closed
  /\ \E r \in 1..Len(editSubmits) :
       /\ editSubmits[r].answers = <<"ok">> /\ editSubmits[r].closed

-----------------------------------------------------------------------------
(* Claims about the sign-in modal (specification AuthSpec) *)

\* handleSubmit of the sign-in modal is invoked in this step
AuthSubmitted == Len(authSubmits') = Len(authSubmits) + 1

\* the store operation of submit r ends in this step
AuthAnswered(r, answer) ==
  /\ r <= Len(authSubmits)
  /\ authSubmits[r].pc = "call"
  /\ authSubmits'[r].answers = <<answer>>

\* another submit than r has ended with a success message
OtherSubmitSucceeded(r) ==
  \E q \in 1..Len(authSubmits) :
    /\ q # r
    /\ authSubmits[q].answers = <<"ok">>
    /\ authSubmits[q].mode # "signin"

\* C20: a submit closes the modal exactly in the step in which its signIn
\* returns; a returned signUp or resetPassword leaves the modal as open as
\* it was and sets the success message of that mode; a submit that fails
\* (its store operation throws, or it throws before calling the store)
\* does not close the modal, sets an error and sets no message, so that no
\* message is shown unless another, overlapping submit set one; a sign-up
\* with a blank full name fails without calling signUp.
C20_CloseOnSignInOnly ==
  [][/\ \A r \in 1..MaxAuthSubmits :
          /\ AuthAnswered(r, "ok") =>
               IF authSubmits[r].mode = "signin"
               THEN authSubmits'[r].closed /\ ~authOpen'
               ELSE /\ ~authSubmits'[r].closed
                    /\ UNCHANGED authOpen
                    /\ message' \in
                         {"Sign up successful! Please check your email to verify your account.",
                          "If an account exists for this email, a password reset link has been sent."}
                    /\ (authSubmits[r].mode = "signup") =
                         (message' = "Sign up successful! Please check your email to verify your account.")
          /\ AuthAnswered(r, "error") =>
               /\ ~authSubmits'[r].closed
               /\ UNCHANGED <<authOpen, message>>
               /\ Truthy(authError')
               /\ Truthy(message') => OtherSubmitSucceeded(r)
          /\ (r <= Len(authSubmits') /\ authSubmits'[r].closed) =>
               \/ AuthAnswered(r, "ok") /\ authSubmits[r].mode = "signin"
               \/ r <= Len(authSubmits) /\ authSubmits[r].closed
     /\ AuthSubmitted =>
          LET run == authSubmits'[Len(authSubmits')]
          IN  /\ UNCHANGED authOpen
              /\ message' = NULL
              /\ ~run.closed
              /\ (mode = "signup" /\ \A i \in 1..Len(fullName) :
                                       fullName[i] = " ") =>
                   /\ run.calls = <<>> /\ run.failed
                   /\ authError' = "Full name is required"
              /\ run.failed => Truthy(authError') /\ run.calls = <<>>]_vars

\* C20 witness: a sign-up with a blank full name has failed, a sign-in has
\* then closed the modal, and the modal was open before
C20_Witness ==
  /\ ~authOpen
  /\ \E r \in 1..Len(authSubmits) :
       /\ authSubmits[r].mode = "signup"
       /\ authSubmits[r].failed /\ authSubmits[r].calls = <<>>
  /\ \E r \in 1..Len(authSubmits) :
       /\ authSubmits[r].mode = "signin"
       /\ authSubmits[r].closed

\* the thrown messages that contain 'User already registered' or
\* 'User already exists'
RegisteredMessages ==
  {"AuthApiError: User already registered", "User already exists",
   "User already registered"}

\* the failures of a submit: what its store operation throws, and what
\* handleSubmit itself throws before calling the store
AuthFailures ==
  AuthThrown \cup
    {[isError |-> TRUE, message |-> "Full name is required"],
     [isError |-> TRUE,
      message |-> "Password reset functionality not available."]}

\* a submit fails with err in this step: the store operation of a submit
\* throws err, or a submit that starts throws err before calling the store
AuthFailsWith(err) ==
  \/ \E r \in 1..Len(authSubmits) :
       AuthResponse(r, [thrown |-> Some(err)])
  \/ /\ AuthSubmitted
     /\ authSubmits'[Len(authSubmits')].failed
     /\ err.isError
     /\ err.message =
          IF mode = "signup" THEN "Full name is required"
          ELSE "Password reset functionality not available."

\* C21 as stated: a failure with an 'already registered' message switches
\* the mode to signin and shows the 'already registered' error; every
\* other failure leaves the mode unchanged and shows its message as is.
C21_OthersShownAsIs ==
  [][\A err \in AuthFailures :
       AuthFailsWith(err) =>
         IF err.message \in RegisteredMessages
         THEN /\ mode' = "signin"
              /\ authError' =
                   "This email is already registered. Please sign in instead."
         ELSE /\ UNCHANGED mode
              /\ authError' = err.message]_vars

\* C21: a failure with an Error whose message contains one of the two
\* phrases switches the mode to signin and shows the 'already registered'
\* error; a failure with another Error leaves the mode unchanged and shows
\* its message as is; a failure with a thrown value that is not an Error
\* leaves the mode unchanged and shows 'An error occurred'.
C21_CatchByKind ==
  [][\A err \in AuthFailures :
       AuthFailsWith(err) =>
         IF err.isError /\ err.message \in RegisteredMessages
         THEN /\ mode' = "signin"
              /\ authError' =
                   "This email is already registered. Please sign in instead."
         ELSE /\ UNCHANGED mode
              /\ authError' = IF err.isError THEN err.message
                              ELSE "An error occurred"]_vars

\* C21 witness: a sign-up has failed at the store, the modal is open in
\* signin mode and shows the 'already registered' error
C21_Witness ==
  /\ authOpen
  /\ mode = "signin"
  /\ authError = "This email is already registered. Please sign in instead."
  /\ \E r \in 1..Len(authSubmits) :
       /\ authSubmits[r].mode = "signup"
       /\ authSubmits[r].calls = <<"signUp">>
       /\ authSubmits[r].answers = <<"error">>

\* the modal's state after this step is the state it is constructed with
AuthCleanNext ==
  /\ authError' = NULL
  /\ message' = NULL
  /\ email' = ""
  /\ password' = ""
  /\ fullName' = <<>>
  /\ mode' = initialMode

\* C22: every step that closes the modal (the close button, or a sign-in
\* that succeeds) leaves error and message null, email, password and full
\* name empty and mode equal to initialMode, and every step that opens the
\* modal again finds it so.
C22_CloseResets ==
  [][/\ (authOpen /\ ~authOpen') => AuthCleanNext
     /\ (~authOpen /\ authOpen') => AuthCleanNext]_vars

-----------------------------------------------------------------------------
(* Claims about the club detail page (specification DetailSpec) *)

\* this step is the catch of fetchClubData invocation r
DetailFetchFails(r) ==
  /\ detailRuns[r].kind = "fetch"
  /\ detailRuns[r].pc # "done"
  /\ detailRuns'[r].pc = "done"
  /\ detailRuns'[r].failed

\* this step is a fetchClubData invocation that finds no club id
DetailFetchWithoutId ==
  /\ Len(detailRuns') = Len(detailRuns) + 1
  /\ detailRuns'[Len(detailRuns')].kind = "fetch"
  /\ ~Truthy(detailRuns'[Len(detailRuns')].clubId)

\* what the page renders below the guards `if (loading)`, `if (error)`,
\* `if (!club)`: the club is on screen
DetailClubShown ==
  ~detailLoading /\ ~Truthy(detailError) /\ club # None

\* C23: a step in which a load of the club detail page fails (at the club
\* read, the events read or the membership check) leaves club null, events
\* empty, error set and loading false, so that no club is on screen; a load
\* with a missing club id issues no backend call and sets the error and
\* loading false directly.
C23_FailedLoadShowsNoClub ==
  [][/\ \A r \in 1..Len(detailRuns) :
          DetailFetchFails(r) =>
            /\ detailRuns[r].pc \in {"club", "events", "membership"}
            /\ club' = None
            /\ clubEvents' = <<>>
            /\ Truthy(detailError')
            /\ ~detailLoading'
            /\ ~DetailClubShown'
     /\ DetailFetchWithoutId =>
          /\ detailRuns'[Len(detailRuns')].calls = <<>>
          /\ detailRuns'[Len(detailRuns')].pc = "done"
          /\ detailError' = "Club ID not found."
          /\ ~detailLoading'
          /\ ~DetailClubShown']_vars

\* a load that read the club and its events failed at the membership check
C23_Witness ==
  \E r \in 1..Len(detailRuns) :
    /\ detailRuns[r].kind = "fetch"
    /\ detailRuns[r].failed
    /\ detailRuns[r].calls = <<"club", "events", "counts", "membership">>
    /\ club = None
    /\ clubEvents = <<>>
    /\ Truthy(detailError)
    /\ ~detailLoading

-----------------------------------------------------------------------------
(* Claims about the clubs directory and the club detail page
   (specification ClubPagesSpec) *)

\* invocation r of the detail page gets the answer `answer` in this step
\* while it awaits `call`
DetailRunAnswered(r, call, answer) ==
  /\ r <= Len(detailRuns)
  /\ detailRuns[r].pc = call
  /\ Len(detailRuns'[r].answers) = Len(detailRuns[r].answers) + 1
  /\ detailRuns'[r].answers[Len(detailRuns'[r].answers)] = answer

\* the delete handler of the detail page is invoked in this step
DetailDeleteInvoked ==
  /\ Len(detailRuns') = Len(detailRuns) + 1
  /\ detailRuns'[Len(detailRuns')].kind = "delete"

\* the backend tables and the club data on screen of both pages
ClubData ==
  <<clubsTable, membershipsTable, detailClubsTable, detailMembershipsTable,
    clubList, memberships, club, clubEvents, isMember>>

\* C24: a clubs row is deleted only in the step that answers with success
\* the delete call of a handleDeleteClub invocation, and that call is issued
\* only by an invocation with a signed-in user whose prompt was confirmed;
\* the detail page navigates to '/clubs' only in the step in which its
\* delete is answered with success, and the clubs directory issues the
\* refetch of a deletion only in that step; an invocation with no user or a
\* declined prompt, and a delete answered with an error, change neither the
\* backend tables nor the club data on screen, and do not navigate.
C24_DeleteAfterConfirm ==
  [][/\ clubsTable' # clubsTable =>
          \E r \in 1..Len(clubRuns) :
            /\ clubRuns[r].kind = "delete"
            /\ ClubRunAnswered(r, "delete", "ok")
            /\ Truthy(clubRuns[r].uid)
            /\ clubsTable' = ClubsDelete(clubsTable, clubRuns[r].clubId)
     /\ detailClubsTable' # detailClubsTable =>
          \E r \in 1..Len(detailRuns) :
            /\ detailRuns[r].kind = "delete"
            /\ DetailRunAnswered(r, "delete", "ok")
            /\ Truthy(detailRuns[r].uid)
            /\ detailClubsTable' =
                 ClubsDelete(detailClubsTable, detailRuns[r].clubId)
     /\ HandlerInvoked("delete") =>
          /\ UNCHANGED <<ClubData, location>>
          /\ clubRuns'[Len(clubRuns')].calls # <<>> =>
               /\ Truthy(clubsUser)
               /\ \E c \in ClickedClubIds : handleDeleteClub(c, TRUE)
               /\ ~\E c \in ClickedClubIds : handleDeleteClub(c, FALSE)
     /\ DetailDeleteInvoked =>
          /\ UNCHANGED <<ClubData, location>>
          /\ detailRuns'[Len(detailRuns')].calls # <<>> =>
               /\ Truthy(detailUser)
               /\ DetailHandleDeleteClub(TRUE)
               /\ ~DetailHandleDeleteClub(FALSE)
     /\ location' # location =>
          /\ location' = "/clubs"
          /\ \E r \in 1..Len(detailRuns) :
               /\ detailRuns[r].kind = "delete"
               /\ DetailRunAnswered(r, "delete", "ok")
     /\ \A r \in 1..Len(clubRuns) :
          /\ (clubRuns[r].kind = "delete"
                /\ ~InSeq("clubs", clubRuns[r].calls)
                /\ InSeq("clubs", clubRuns'[r].calls)) =>
               /\ ClubRunAnswered(r, "delete", "ok")
               /\ clubRuns'[r].calls = <<"delete", "clubs">>
          /\ ClubRunAnswered(r, "delete", "error") =>
               UNCHANGED <<ClubData, location>>
     /\ \A r \in 1..Len(detailRuns) :
          DetailRunAnswered(r, "delete", "error") =>
            UNCHANGED <<ClubData, location>>]_vars

\* C24 witness: on the detail page the creator of club c1 confirmed the
\* prompt, the delete was answered with success, the row is gone and the
\* page navigated to the clubs list
C24_Witness ==
  \E r \in 1..Len(detailRuns) :
    /\ detailRuns[r].kind = "delete"
    /\ detailRuns[r].uid = "u1"
    /\ detailRuns[r].answers = <<"ok">>
    /\ detailClubsTable = ClubsDelete(ClubsTableInit, "c1")
    /\ location = "/clubs"

-----------------------------------------------------------------------------
(* Claims about every page (specifications SiteSpec and LiveSpec) *)

\* in the step from run `old` to run `new` of an invocation no call is
\* issued that the invocation issued before, and no call at all when the
\* step ends the invocation with a failure
NoReissue(old, new) ==
  /\ \A i \in (Len(old.calls) + 1)..Len(new.calls) :
       \A j \in 1..(i - 1) : new.calls[j] # new.calls[i]
  /\ Len(new.calls) <= Len(old.calls) + 1
  /\ new.failed => new.calls = old.calls

\* the same for every invocation of the sequence runs
NoReissueIn(runs, runsNext) ==
  \A r \in 1..Len(runsNext) :
    IF r <= Len(runs)
    THEN NoReissue(runs[r], runsNext[r])
    ELSE Len(runsNext[r].calls) <= 1

\* C13: no step of a search, of a featured-events computation, of
\* fetchData, of a join, leave or club deletion, or of an announcement
\* update issues a backend call that its invocation issued before; an
\* invocation issues at most one call per step, only when it starts or
\* when its previous call was answered, and none in the step in which it
\* fails: a failed call is never issued again by the same invocation.
C13_NoRetry ==
  [][/\ NoReissueIn(searches, searches')
     /\ NoReissueIn(feeds, feeds')
     /\ NoReissueIn(clubRuns, clubRuns')
     /\ NoReissueIn(editSubmits, editSubmits')]_vars

\* C13 witness: a leave whose delete failed has ended with that one call,
\* and the club's buttons are enabled again
C13_Witness ==
  /\ actionLoadingClubId = NULL
  /\ \E r \in 1..Len(clubRuns) :
       /\ clubRuns[r].kind = "leave"
       /\ clubRuns[r].pc = "done" /\ clubRuns[r].failed
       /\ clubRuns[r].calls = <<"remove">>
       /\ clubRuns[r].answers = <<"error">>

AllFeedsDone == \A f \in 1..Len(feeds) : feeds[f].pc = "done"

\* C14: when the backend answers every awaited query, again and again all
\* the searches and all the featured-events computations started so far have
\* ended (an ended one stays ended, so each of them ends) with the loading
\* flags false; the step that ends one, with or without a failure, sets its
\* loading flag to false; and whenever all that were started have ended the
\* flag is false.
C14_LoadingEnds ==
  /\ []<>(/\ AllSearchesDone /\ (mounted => ~loading)
          /\ AllFeedsDone /\ (appMounted => ~loadingFeaturedEvents))
  /\ [][/\ \A s \in 1..Len(searches') :
            (searches'[s].pc = "done"
               /\ (s > Len(searches) \/ searches[s].pc # "done"))
              => ~loading'
        /\ \A f \in 1..Len(feeds') :
            (feeds'[f].pc = "done"
               /\ (f > Len(feeds) \/ feeds[f].pc # "done"))
              => ~loadingFeaturedEvents']_vars
  /\ []((mounted /\ AllSearchesDone) => ~loading)
  /\ []((appMounted /\ AllFeedsDone) => ~loadingFeaturedEvents)

\* C14 witness: two overlapping searches have ended, one of them with a
\* failure, and loading is false
C14_Witness ==
  /\ Len(searches) >= 2
  /\ AllSearchesDone
  /\ \E s \in 1..Len(searches) : searches[s].failed
  /\ \E s \in 1..Len(searches) : ~searches[s].failed /\ Truthy(searches[s].q)
  /\ ~loading

-----------------------------------------------------------------------------
(* Claims about overlapping invocations (specifications Spec and FeedSpec) *)

\* the search issued for the current query: the latest invocation
CurrentSearchOutstanding ==
  /\ Len(searches) > 0
  /\ searches[Len(searches)].q = query
  /\ searches[Len(searches)].pc # "done"

\* C25: on the search page loading is true in every state in which the
\* search issued for the current query still awaits a backend query, and
\* loading becomes false only in a state in which that search has finished.
C25_LoadingWhileOutstanding ==
  [][/\ CurrentSearchOutstanding' => loading'
     /\ (loading /\ ~loading') => ~CurrentSearchOutstanding']_vars

\* C26: when the user id changed while a featured-events computation was in
\* flight, then once every computation has completed the featured list is
\* the one the computation for the latest user id produced, and that
\* computation was the last to write it.
C26_LatestUserWins ==
  (appMounted /\ AllFeedsDone /\ Len(feeds) > 1) =>
    LET n == Len(feeds)
    IN  /\ feeds[n].uid = user
        /\ featuredFrom = n
        /\ featuredEvents = OrEmpty(feeds[n].result)

====
